---- MODULE Spec2Model ----
(***************************************************************************)
(* wol-sieve: the reference resolution and deduplication engine.           *)
(*                                                                         *)
(* The state machines of the module:                                       *)
(*   Spec          _extractBibleReferences (Bible-index extractor)         *)
(*   SpecMissingHref  the same, on pages where an anchor may lack its href *)
(*   SpecSighting  the same, one mnemonic on anchors of different targets  *)
(*   SpecBarrier   the same, with the scheduling of the event loop         *)
(*   SpecResolver  one fetchAndParseAnchorReferenceOrThrow call            *)
(*   SpecArticle   extractContents (article-content extractor)             *)
(*   SpecLinks     extractReferencesFromLinks                              *)
(*   SpecWeek      the weekly-program extractors                           *)
(*   SpecPages     the page-fetch chain of data-fetching/wol-pages.ts      *)
(*   SpecRoute, SpecNwtstyRoute   the HTTP routes                          *)
(* and, for the functions, one specification that applies each to every    *)
(* input of a bounded set: SpecClassify, SpecNwtsty, SpecNwtstyEntry,      *)
(* SpecWrap, SpecUrl, SpecNormalize.                                       *)
(*                                                                         *)
(* JavaScript values are tagged records (field t).  A call's completion is *)
(* Ret(v) or Thr(e); a promise's outcome is Fulfilled(v) or Rejected(e).   *)
(* Text the code only passes around is a TLA+ string; text the code looks  *)
(* into (href, articleClasses) is a tuple of characters.                   *)
(***************************************************************************)
EXTENDS Integers, Sequences, FiniteSets, TLC

VARIABLES
    doc,          \* Spec: the sections picked from the page, each a sequence of anchors
    pc,           \* Spec: "scan" | "await" | "done" | "threw"
    si,           \* Spec: index of the section sectionDataMapper is running on
    ai,           \* Spec: anchorIndex of the for loop
    tracking,     \* Spec: mnemonicExtractionTracking (Map: mnemonic -> tracking object)
    calls,        \* Anchor Resolver invocations, in call order
    fetches,      \* network requests sent, in order (fetch URLs)
    output,       \* Spec: the value _extractBibleReferences resolves to
    settleOrder,  \* Spec: the calls in the order their fetches settled
    probe,        \* SpecResolver: validation and parse of the fetched payload
    article,      \* SpecArticle: questions -> related paragraphs -> reference anchors
    apc,          \* SpecArticle: "map" | "await" | "done" | "threw"
    qi,           \* SpecArticle: question being mapped
    footnoteIndex,\* SpecArticle: the footnoteIndex counter
    fnOf,         \* SpecArticle: fnIndex taken by each call
    aRejected,    \* SpecArticle: a question callback threw (missing data-pid)
    aOutput,      \* SpecArticle: the value extractContents resolves to
    input,        \* function specifications: the argument the function is called with
    returned,     \* function specifications: what the call came to
    links,        \* SpecLinks: the links with the opRes of their page fetch
    lpc,          \* SpecLinks: "fetch" | "loop" | "returned"
    li,           \* SpecLinks: index of the for loop over opResults
    linksResult,  \* SpecLinks: the result object: results and errors
    httpRes,      \* SpecRoute: the responses sent and res.locals
    invoked,      \* SpecRoute: the calls of defaultHtmlGenerator and scrapperOperation
    rpc,          \* SpecRoute: "off" | "fill" | "scrap" | "end"
    ppc,          \* SpecPages: the getHtmlContent call the chain is awaiting
    pages         \* SpecPages: what the getHtmlContent calls resolved to, in order

vars == <<doc, pc, si, ai, tracking, calls, fetches, output, settleOrder, probe,
          article, apc, qi, footnoteIndex, fnOf, aRejected, aOutput,
          input, returned, links, lpc, li, linksResult,
          httpRes, invoked, rpc, ppc, pages>>

\* the variables of the machines added after the first three
fnVars == <<input, returned>>

linksVars == <<links, lpc, li, linksResult>>

routeVars == <<httpRes, invoked, rpc>>

pageVars == <<ppc, pages>>

restVars == <<fnVars, linksVars, routeVars, pageVars>>

bibleVars == <<doc, pc, si, ai, tracking, output, settleOrder>>
articleVars == <<article, apc, qi, footnoteIndex, fnOf, aRejected, aOutput>>

----------------------------------------------------------------------------
(* JavaScript values *)

Undefined == [t |-> "undefined"]

Null == [t |-> "null"]

NumberVal == [t |-> "number"]

Bool(b) == [t |-> "boolean", b |-> b]

Str(s) == [t |-> "string", s |-> s]

Arr(elems) == [t |-> "array", elems |-> elems]

JsError(name, message) == [t |-> "error", name |-> name, message |-> message]

Ret(v) == [k |-> "return", v |-> v]

Thr(e) == [k |-> "throw", v |-> e]

Fulfilled(v) == [state |-> "fulfilled", v |-> v]

Rejected(e) == [state |-> "rejected", v |-> e]

\* await p: the value of a fulfilled promise, a throw of a rejected one
Await(p) == IF p.state = "rejected" THEN Thr(p.v) ELSE Ret(p.v)

\* x instanceof Error
IsErrorInstance(v) == v.t = "error"

\* a ?? b
Coalesce(a, b) == IF a.t \in {"null", "undefined"} THEN b ELSE a

\* obj.name: a TypeError on null and undefined, undefined for an absent property
GetProp(obj, name) ==
    IF obj.t \in {"null", "undefined"}
    THEN Thr(JsError("TypeError", "Cannot read properties of " \o obj.t))
    ELSE IF obj.t = "object" /\ name \in DOMAIN obj
         THEN Ret(obj[name])
         ELSE Ret(Undefined)

\* const [first] = v: arrays and strings are iterable, anything else is a TypeError
DestructureFirst(v) ==
    IF v.t = "array"
    THEN Ret(IF Len(v.elems) = 0 THEN Undefined ELSE v.elems[1])
    ELSE IF v.t = "string"
         THEN Ret(IF Len(v.s) = 0 THEN Undefined ELSE Str(<<v.s[1]>>))
         ELSE Thr(JsError("TypeError", "not iterable: " \o v.t))

\* typeof v === 'string' && !!v
IsNonEmptyString(v) == v.t = "string" /\ Len(v.s) > 0

----------------------------------------------------------------------------
(* kernel: results of wrapped operations *)

SuccessResult(v) == [err |-> Null, res |-> v]

ErrorResult(e) == [err |-> e, res |-> Null]

opErrored(result) == result.err # Null

\* wrapAsyncOp without its catch: a throw of the wrapped function rejects
wrapAsyncOp_NoCatch(c) ==
    IF c.k = "throw"
    THEN Rejected(c.v)
    ELSE IF IsErrorInstance(c.v) THEN Fulfilled(ErrorResult(c.v)) ELSE Fulfilled(SuccessResult(c.v))

\* wrapAsyncOp(asyncFunc)(...args), given the completion c of `await asyncFunc(...args)`
wrapAsyncOp(c) ==
    IF c.k = "throw"
    THEN Fulfilled(ErrorResult(c.v))
    ELSE IF IsErrorInstance(c.v) THEN Fulfilled(ErrorResult(c.v)) ELSE Fulfilled(SuccessResult(c.v))

----------------------------------------------------------------------------
(* kernel constants *)

WOL_URL == "https://wol.jw.org"

PUB_CODE_WATCHTOWER == <<"p", "u", "b", "-", "w">>

PUB_CODE_BIBLE == <<"p", "u", "b", "-", "n", "w", "t", "s", "t", "y">>

UNABLE_TO_EXTRACT_REFERENCE == "unable to extract reference"

MALFORMED_PAYLOAD_MESSAGE == "JSON content for reference doesn't match the expected format."

----------------------------------------------------------------------------
(* regular expressions of the form \bWORD\b with the i flag *)

LowerLetters ==
    <<"a", "b", "c", "d", "e", "f", "g", "h", "i", "j", "k", "l", "m",
      "n", "o", "p", "q", "r", "s", "t", "u", "v", "w", "x", "y", "z">>

UpperLetters ==
    <<"A", "B", "C", "D", "E", "F", "G", "H", "I", "J", "K", "L", "M",
      "N", "O", "P", "Q", "R", "S", "T", "U", "V", "W", "X", "Y", "Z">>

Digits == {"0", "1", "2", "3", "4", "5", "6", "7", "8", "9"}

\* \w
WordChars ==
    {LowerLetters[i] : i \in DOMAIN LowerLetters}
        \cup {UpperLetters[i] : i \in DOMAIN UpperLetters} \cup Digits \cup {"_"}

ToLower(c) ==
    IF \E i \in DOMAIN UpperLetters : UpperLetters[i] = c
    THEN LowerLetters[CHOOSE i \in DOMAIN UpperLetters : UpperLetters[i] = c]
    ELSE c

\* \b at the gap after the first p characters of s
IsWordBoundary(s, p) ==
    LET leftWord == p >= 1 /\ s[p] \in WordChars
        rightWord == p + 1 <= Len(s) /\ s[p + 1] \in WordChars
    IN  leftWord # rightWord

\* new RegExp(`\\b${word}\\b`, 'i').test(s)
TestWholeWord(word, s) ==
    \E i \in 1..(Len(s) - Len(word) + 1) :
        /\ \A j \in 1..Len(word) : ToLower(s[i + j - 1]) = ToLower(word[j])
        /\ IsWordBoundary(s, i - 1)
        /\ IsWordBoundary(s, i + Len(word) - 1)

----------------------------------------------------------------------------
(* data-extraction: classification and the text extraction strategies *)

detectReferenceDataType(itemData) ==
    [isPubW |-> TestWholeWord(PUB_CODE_WATCHTOWER, itemData.articleClasses.s),
     isPubNwtsty |-> TestWholeWord(PUB_CODE_BIBLE, itemData.articleClasses.s)]

\* Markup is a sequence of nodes: text nodes holding characters and elements
\* holding a tag, class names and child nodes.  A string of HTML is the
\* sequence of nodes it parses to.
TextNode(chars) == [k |-> "text", data |-> chars]

Element(tag, cls, kids) == [k |-> "el", tag |-> tag, cls |-> cls, kids |-> kids]

\* cheerio.load(content): the fragment becomes the body of a document
load(content) ==
    Element("html", {}, <<Element("head", {}, <<>>), Element("body", {}, content)>>)

\* a selector of the form tag.class, tag.class, ... with one tag ("*": any)
Selector(tag, classes) == [tag |-> tag, classes |-> classes]

matches(el, selector) ==
    /\ selector.tag \in {"*", el.tag}
    /\ selector.classes \cap el.cls # {}

RECURSIVE text(_)
\* .text() of a selection: the text of each node with that of its descendants,
\* one after the other
text(nodes) ==
    IF nodes = <<>>
    THEN <<>>
    ELSE (IF Head(nodes).k = "text" THEN Head(nodes).data ELSE text(Head(nodes).kids))
             \o text(Tail(nodes))

textContent(node) == text(<<node>>)

RECURSIVE elementsIn(_)
\* the elements of the subtrees, in document order
elementsIn(nodes) ==
    IF nodes = <<>>
    THEN <<>>
    ELSE (IF Head(nodes).k = "text"
          THEN <<>>
          ELSE <<Head(nodes)>> \o elementsIn(Head(nodes).kids))
             \o elementsIn(Tail(nodes))

\* .find(selector) from one element: its descendant elements that match
find(node, selector) ==
    LET Hit(el) == matches(el, selector)
    IN  SelectSeq(elementsIn(node.kids), Hit)

RECURSIVE withoutDescendants(_, _)
\* the node once .find(selector).remove() has run in a selection holding it
\* or an ancestor of it
withoutDescendants(node, selector) ==
    IF node.k = "text"
    THEN node
    ELSE LET Kept(kid) == kid.k = "text" \/ ~matches(kid, selector)
             kept == SelectSeq(node.kids, Kept)
         IN  [node EXCEPT !.kids =
                  [i \in DOMAIN kept |-> withoutDescendants(kept[i], selector)]]

RECURSIVE withAppended(_, _, _, _)
\* the node once .find(selector).each(el => $(el).append(extra)) has run in a
\* selection holding an ancestor of it (isFound: the node itself is found)
withAppended(node, selector, extra, isFound) ==
    IF node.k = "text"
    THEN node
    ELSE LET kids == [i \in DOMAIN node.kids |->
                         withAppended(node.kids[i], selector, extra,
                                      node.kids[i].k = "el"
                                          /\ matches(node.kids[i], selector))]
         IN  [node EXCEPT !.kids = IF isFound THEN kids \o <<extra>> ELSE kids]

Whitespace == {" ", "\n", "\t", "nbsp"}

RECURSIVE trimStart(_)
trimStart(chars) ==
    IF chars # <<>> /\ Head(chars) \in Whitespace THEN trimStart(Tail(chars)) ELSE chars

RECURSIVE trimEnd(_)
trimEnd(chars) ==
    IF chars # <<>> /\ chars[Len(chars)] \in Whitespace
    THEN trimEnd(SubSeq(chars, 1, Len(chars) - 1))
    ELSE chars

\* String.prototype.trim
trim(chars) == trimEnd(trimStart(chars))

RECURSIVE replaceAllPair(_, _, _, _)
\* chars.replaceAll(a + b, c)
replaceAllPair(chars, a, b, c) ==
    IF Len(chars) < 2
    THEN chars
    ELSE IF chars[1] = a /\ chars[2] = b
         THEN <<c>> \o replaceAllPair(SubSeq(chars, 3, Len(chars)), a, b, c)
         ELSE <<chars[1]>> \o replaceAllPair(Tail(chars), a, b, c)

\* enforceIsString(txt).trim().replaceAll('Â ', ' ')
cleanText(chars) == replaceAllPair(trim(chars), "Acirc", " ", " ")

RECURSIVE collapseConsecutiveLineBreaks(_)
\* chars.replace(/\n+/g, '\n')
collapseConsecutiveLineBreaks(chars) ==
    IF Len(chars) < 2
    THEN chars
    ELSE IF chars[1] = "\n" /\ chars[2] = "\n"
         THEN collapseConsecutiveLineBreaks(Tail(chars))
         ELSE <<chars[1]>> \o collapseConsecutiveLineBreaks(Tail(chars))

RECURSIVE replaceSpaceAroundLineBreak(_)
\* chars.replace(/(\s\n|\n\s)/g, '\n')
replaceSpaceAroundLineBreak(chars) ==
    IF Len(chars) < 2
    THEN chars
    ELSE IF \/ chars[1] \in Whitespace /\ chars[2] = "\n"
            \/ chars[1] = "\n" /\ chars[2] \in Whitespace
         THEN <<"\n">> \o replaceSpaceAroundLineBreak(SubSeq(chars, 3, Len(chars)))
         ELSE <<chars[1]>> \o replaceSpaceAroundLineBreak(Tail(chars))

RECURSIVE CharsToString(_)
\* the string made of the characters
CharsToString(chars) == IF chars = <<>> THEN "" ELSE Head(chars) \o CharsToString(Tail(chars))

RECURSIVE join(_, _)
\* Array.prototype.join
join(texts, separator) ==
    IF texts = <<>>
    THEN <<>>
    ELSE IF Len(texts) = 1
         THEN texts[1]
         ELSE texts[1] \o separator \o join(Tail(texts), separator)

SELECTOR_PARAGRAPH_SB == Selector("p", {"sb"})                \* 'p.sb'

SELECTOR_PAR_NUM == Selector("*", {"parNum"})                 \* '.parNum'

SELECTOR_FOOTNOTES == Selector("a", {"fn", "b"})              \* 'a.fn, a.b'

SELECTOR_SL_SZ == Selector("*", {"sl", "sz"})                 \* '.sl, .sz'

SpaceSpan == Element("span", {}, <<TextNode(<<" ">>)>>)       \* '<span> </span>'

\* $('p.sb').map(...).get().join('\n')
extractPubWReferenceAsText(content) ==
    LET paragraphs == find(load(content), SELECTOR_PARAGRAPH_SB)
    IN  CharsToString(
            join([i \in DOMAIN paragraphs |->
                     cleanText(textContent(
                         withoutDescendants(paragraphs[i], SELECTOR_PAR_NUM)))],
                 <<"\n">>))

\* what an element selected before the changes has become after them; found:
\* it is a descendant of the selection, so that find reaches it
nwtstyChanged(el, found) ==
    withAppended(withoutDescendants(el, SELECTOR_FOOTNOTES), SELECTOR_SL_SZ,
                 SpaceSpan, found /\ matches(el, SELECTOR_SL_SZ))

\* the string form: context = $('*'), every element of the loaded document,
\* each one but the root a descendant of another
extractPubNwtstyReferenceAsText(content) ==
    LET context == elementsIn(<<load(content)>>)
        changed == [i \in DOMAIN context |-> nwtstyChanged(context[i], i > 1)]
    IN  CharsToString(replaceSpaceAroundLineBreak(cleanText(text(changed))))

\* $.text(): the text of the whole document
extractReferenceAsTextDefaultStrategy(content) ==
    CharsToString(collapseConsecutiveLineBreaks(cleanText(textContent(load(content)))))

\* the Bible strategy tried first
pickAndApplyTextExtractor_BibleFirst(det, contentToParse) ==
    IF det.isPubNwtsty
    THEN extractPubNwtstyReferenceAsText(contentToParse)
    ELSE IF det.isPubW
         THEN extractPubWReferenceAsText(contentToParse)
         ELSE extractReferenceAsTextDefaultStrategy(contentToParse)

pickAndApplyTextExtractor(det, contentToParse) ==
    IF det.isPubW
    THEN extractPubWReferenceAsText(contentToParse)
    ELSE IF det.isPubNwtsty
         THEN extractPubNwtstyReferenceAsText(contentToParse)
         ELSE extractReferenceAsTextDefaultStrategy(contentToParse)

buildPublicationRefData(rawReferenceData) ==
    LET contentDetectionData == detectReferenceDataType(rawReferenceData)
    IN  [t |-> "object",
         isPubW |-> contentDetectionData.isPubW,
         isPubNwtsty |-> contentDetectionData.isPubNwtsty,
         parsedContent |->
             pickAndApplyTextExtractor(contentDetectionData, rawReferenceData.content.s)]

----------------------------------------------------------------------------
(* data-extraction: payload validation *)

\* json.items.length < 1
ItemsCountIsWrong(items) == Len(items.elems) < 1

isJsonContentAcceptableForReferenceExtraction(json) ==
    LET items == GetProp(json, "items")                        \* json.items
    IN  IF items.k = "throw"
        THEN items
        ELSE LET valid1 == items.v.t = "array" /\ ~ItemsCountIsWrong(items.v)
                 first == DestructureFirst(items.v)            \* const [itemData] = json.items
             IN  IF first.k = "throw"
                 THEN first
                 ELSE LET content == GetProp(first.v, "content")
                          classes == GetProp(first.v, "articleClasses")
                      IN  IF content.k = "throw"
                          THEN content
                          ELSE Ret(Bool(/\ valid1
                                        /\ IsNonEmptyString(content.v)
                                        /\ IsNonEmptyString(classes.v)))

parseAnchorRefDataOrThrow(fetchedReferenceJson) ==
    LET acceptable == isJsonContentAcceptableForReferenceExtraction(fetchedReferenceJson)
    IN  IF acceptable.k = "throw"
        THEN acceptable
        ELSE IF ~acceptable.v.b
             THEN Thr(JsError("Error", MALFORMED_PAYLOAD_MESSAGE))
             ELSE Ret(buildPublicationRefData(fetchedReferenceJson.items.elems[1]))

----------------------------------------------------------------------------
(* data-fetching: the network and the Anchor Resolver *)

\* what the network can answer to one GET
RejectedFetch == [kind |-> "rejected", ok |-> FALSE, isJson |-> FALSE, json |-> Undefined]

Non2xx == [kind |-> "response", ok |-> FALSE, isJson |-> FALSE, json |-> Undefined]

NonJsonBody == [kind |-> "response", ok |-> TRUE, isJson |-> FALSE, json |-> Undefined]

JsonBody(v) == [kind |-> "response", ok |-> TRUE, isJson |-> TRUE, json |-> v]

\* no request was sent, so there is nothing to answer
NoResponse == [kind |-> "none", ok |-> FALSE, isJson |-> FALSE, json |-> Undefined]

\* String.prototype.slice(n) on a tuple of characters
Slice(s, n) == SubSeq(s, n + 1, Len(s))

\* buildAnchorRefExtractionData that rejects an anchor without href
buildAnchorRefExtractionData_Throwing(anchor) ==
    IF anchor.href.t # "string"
    THEN Thr(JsError("Error", "anchor has no href"))
    ELSE Ret([sourceHref |-> anchor.href.s,
              fetchUrl |-> <<WOL_URL>> \o Slice(anchor.href.s, 3)])

\* $el.attr('href') is undefined when the attribute is absent
buildAnchorRefExtractionData(anchor) ==
    LET sourceHref == IF IsNonEmptyString(anchor.href) THEN anchor.href.s ELSE <<>>
    IN  Ret([sourceHref |-> sourceHref,
             fetchUrl |-> <<WOL_URL>> \o Slice(sourceHref, 3)])

\* _fetchContent that sends the request again when the first one failed
fetchContentFollowUp_Retry(url, response) ==
    IF response.kind = "rejected" \/ ~response.ok THEN <<url>> ELSE <<>>

\* the requests _fetchContent sends once its fetch has settled: none, on any branch
fetchContentFollowUp(url, response) == <<>>

\* the value `await _fetchContent(url, headers)` yields (its catch returns an Error)
_fetchContent(response) ==
    IF response.kind = "rejected"
    THEN JsError("Error", "Request failed")
    ELSE IF ~response.ok
         THEN JsError("Error", "Failed to fetch")
         ELSE [t |-> "object", response |-> response]

_getJsonContent(response) ==
    LET result == _fetchContent(response)
    IN  IF IsErrorInstance(result)
        THEN Ret(result)
        ELSE IF ~result.response.isJson                       \* response.json() throws
             THEN Ret(JsError("Error", "Failed to parse JSON response"))
             ELSE Ret(result.response.json)

getJsonContent(response) == wrapAsyncOp(_getJsonContent(response))

_fetchAnchorReferenceData(response) ==
    LET opRes == Await(getJsonContent(response))
    IN  IF opRes.k = "throw" THEN opRes ELSE Ret(Coalesce(opRes.v.err, opRes.v.res))

fetchAnchorReferenceData(response) == wrapAsyncOp(_fetchAnchorReferenceData(response))

_fetchAnchorData(anchor, response) ==
    LET anchorRefExtractionData == buildAnchorRefExtractionData(anchor)
    IN  IF anchorRefExtractionData.k = "throw"
        THEN anchorRefExtractionData
        ELSE LET opRes == Await(fetchAnchorReferenceData(response))
             IN  IF opRes.k = "throw" THEN opRes ELSE Ret(Coalesce(opRes.v.err, opRes.v.res))

fetchAnchorData(anchor, response) == wrapAsyncOp(_fetchAnchorData(anchor, response))

_fetchAndParseAnchorReferenceOrThrow(anchor, response) ==
    LET opRes == Await(fetchAnchorData(anchor, response))
    IN  IF opRes.k = "throw"
        THEN opRes
        ELSE IF opRes.v.err # Null                             \* if (opRes.err)
             THEN Ret(opRes.v.err)
             ELSE parseAnchorRefDataOrThrow(opRes.v.res)

\* the outcome of the promise fetchAndParseAnchorReferenceOrThrow($anchor) returns,
\* given what the network answers to its request
fetchAndParseAnchorReferenceOrThrow(anchor, response) ==
    wrapAsyncOp(_fetchAndParseAnchorReferenceOrThrow(anchor, response))

\* the synchronous start of a resolver call: the requests it sends
ResolverRequests(anchor) ==
    LET data == buildAnchorRefExtractionData(anchor)
    IN  IF data.k = "throw" THEN <<>> ELSE <<data.v.fetchUrl>>

\* a resolver invocation, as recorded in calls
NewCall(anchor) ==
    [anchor |-> anchor,
     requests |-> ResolverRequests(anchor),
     settled |-> FALSE,
     response |-> NoResponse,
     outcome |-> Fulfilled(SuccessResult(Undefined))]

----------------------------------------------------------------------------
(* inputs *)

MaxSections == 2

MaxDocAnchors == 4

MaxItems == 2

Mnemonics == {"A", "B"}

HrefEsA == <<"/", "e", "s", "/", "a">>

HrefEnA == <<"/", "e", "n", "/", "a">>

\* the anchors a page offers: two mnemonics whose links differ only in the
\* stripped prefix
AnchorSamples ==
    { [mnemonic |-> "A", href |-> Str(HrefEsA)],
      [mnemonic |-> "B", href |-> Str(HrefEnA)] }

\* and a mnemonic that also comes on an anchor with no href
AnchorSamplesAnyHref ==
    AnchorSamples \cup { [mnemonic |-> "B", href |-> Undefined] }

MaxHrefAnchors == 2

SeqsUpTo(S, n) == UNION {[1..k -> S] : k \in 0..n}

\* sequences of at most s groups (sections, paragraphs) of elements of S,
\* holding at most n elements in all
RECURSIVE GroupsOf(_, _, _)
GroupsOf(S, s, n) ==
    IF s = 0
    THEN {<<>>}
    ELSE {<<>>} \cup
         UNION { {<<group>> \o rest : rest \in GroupsOf(S, s - 1, n - Len(group))} :
                 group \in SeqsUpTo(S, n) }

RECURSIVE AnchorCount(_)
AnchorCount(groups) ==
    IF groups = <<>> THEN 0 ELSE Len(Head(groups)) + AnchorCount(Tail(groups))

MaxQuestions == 2

MaxParagraphs == 1

MaxArticleRefs == 2

ArticleAnchorSamples ==
    { [mnemonic |-> "A", href |-> Str(HrefEsA)],
      [mnemonic |-> "B", href |-> Str(HrefEnA)] }

\* articles of at most q questions holding at most n reference anchors in all;
\* the related paragraphs of a question are those naming its data-pid, so a
\* question without data-pid has none
RECURSIVE QuestionsOf(_, _)
QuestionsOf(q, n) ==
    IF q = 0
    THEN {<<>>}
    ELSE {<<>>} \cup
         {<<[hasPid |-> FALSE, paragraphs |-> <<>>]>> \o rest :
              rest \in QuestionsOf(q - 1, n)} \cup
         UNION { {<<[hasPid |-> TRUE, paragraphs |-> ps]>> \o rest :
                      rest \in QuestionsOf(q - 1, n - AnchorCount(ps))} :
                 ps \in GroupsOf(ArticleAnchorSamples, MaxParagraphs, n) }

Item(content, articleClasses) ==
    [t |-> "object", content |-> content, articleClasses |-> articleClasses]

Payload(items) == [t |-> "object", items |-> items]

\* <p class="sb"><span class="parNum">1</span>one</p>
MarkupOne ==
    <<Element("p", {"sb"},
              <<Element("span", {"parNum"}, <<TextNode(<<"1">>)>>),
                TextNode(<<"o", "n", "e">>)>>)>>

\* <p>two</p>
MarkupTwo == <<Element("p", {}, <<TextNode(<<"t", "w", "o">>)>>)>>

ContentSamples == {Undefined, NumberVal, Str(<<>>), Str(MarkupOne), Str(MarkupTwo)}

ClassSamples ==
    {Undefined, Str(<<>>), Str(PUB_CODE_WATCHTOWER), Str(PUB_CODE_BIBLE),
     Str(<<"o", "t", "h", "e", "r">>)}

ItemSamples == {Item(c, a) : c \in ContentSamples, a \in ClassSamples} \cup {Null}

\* every body a reference URL can answer with
JsonSamples ==
    {Null, Payload(Undefined), Payload(NumberVal), Payload(Str(<<"x", "y">>))}
        \cup {Payload(Arr(items)) : items \in SeqsUpTo(ItemSamples, MaxItems)}

AllResponses == {RejectedFetch, Non2xx, NonJsonBody} \cup {JsonBody(j) : j \in JsonSamples}

ValidOne == Item(Str(MarkupOne), Str(PUB_CODE_WATCHTOWER))

ValidTwo == Item(Str(MarkupTwo), Str(<<"o", "t", "h", "e", "r">>))

\* the answers drawn while a whole document is resolved
NetResponses ==
    {RejectedFetch, Non2xx, NonJsonBody,
     JsonBody(Payload(Arr(<<>>))),
     JsonBody(Payload(Arr(<<ValidOne>>))),
     JsonBody(Payload(Arr(<<ValidTwo>>)))}

----------------------------------------------------------------------------
(* Spec: _extractBibleReferences *)

NotCalled == [t |-> "not called"]

\* the other machines are not running
FnIdle ==
    /\ input = NotCalled
    /\ returned = NotCalled

LinksIdle ==
    /\ links = <<>>
    /\ lpc = "off"
    /\ li = 1
    /\ linksResult = [results |-> <<>>, errors |-> <<>>]

NoResponseYet == [sent |-> <<>>, locals |-> [html |-> Undefined]]

PagesIdle ==
    /\ ppc = "off"
    /\ pages = <<>>

RouteIdle ==
    /\ httpRes = NoResponseYet
    /\ invoked = <<>>
    /\ rpc = "off"

RestIdle ==
    /\ FnIdle
    /\ LinksIdle
    /\ RouteIdle
    /\ PagesIdle

NoOutput == [entries |-> <<>>, sharedMnemonicReferences |-> <<>>]

NoProbe == [json |-> Undefined, acceptable |-> Ret(Undefined), parsed |-> Ret(Undefined)]

ArticleIdle ==
    /\ article = <<>>
    /\ apc = "off"
    /\ qi = 1
    /\ footnoteIndex = 1
    /\ fnOf = <<>>
    /\ aRejected = FALSE
    /\ aOutput = <<>>

BibleIdle ==
    /\ doc = <<>>
    /\ pc = "off"
    /\ si = 1
    /\ ai = 1
    /\ tracking = <<>>
    /\ output = NoOutput
    /\ settleOrder = <<>>

Init ==
    /\ doc \in GroupsOf(AnchorSamples, MaxSections, MaxDocAnchors)
    /\ pc = "scan"
    /\ si = 1
    /\ ai = 1
    /\ tracking = <<>>
    /\ calls = <<>>
    /\ fetches = <<>>
    /\ output = NoOutput
    /\ settleOrder = <<>>
    /\ probe = NoProbe
    /\ ArticleIdle
    /\ RestIdle

\* mnemonicExtractionTracking.get(mnemonic) ?? { ...fresh tracking object }
getTrackingObj(mnemonic) ==
    IF mnemonic \in DOMAIN tracking
    THEN tracking[mnemonic]
    ELSE [mnemonic |-> mnemonic, refContents |-> "", seenCounter |-> 0, operationPromise |-> 0]

\* mnemonicExtractionTracking.set(mnemonic, trackingObj)
TrackingSet(mnemonic, trackingObj) ==
    [m \in DOMAIN tracking \cup {mnemonic} |->
        IF m = mnemonic THEN trackingObj ELSE tracking[m]]

\* a fetch is started for every anchor
IsFirstSighting_Always(trackingObj) == TRUE

\* a fetch is started for every new pair of mnemonic and target
IsFirstSighting_PerHref(trackingObj) ==
    \/ trackingObj.seenCounter = 0
    \/ doc[si][ai].href # calls[trackingObj.operationPromise].anchor.href

\* if (trackingObj.seenCounter === 0)
IsFirstSighting(trackingObj) == trackingObj.seenCounter = 0

\* the handler leaves the text empty on a failed resolution
thenHandler_NoSentinel(opRes) ==
    IF opErrored(opRes) THEN "" ELSE opRes.res.parsedContent

\* the .then handler of operationPromise: the text trackingObj.refContents gets
thenHandler(opRes) ==
    IF opErrored(opRes) THEN UNABLE_TO_EXTRACT_REFERENCE ELSE opRes.res.parsedContent

\* every handler writes to one object, the same for all mnemonics
trackingAfter_SharedObject(mnemonic, refContents) ==
    [m \in DOMAIN tracking |-> [tracking[m] EXCEPT !.refContents = refContents]]

\* trackingObj.refContents = refContents, on the handler's own tracking object
trackingAfter(mnemonic, refContents) ==
    [tracking EXCEPT ![mnemonic].refContents = refContents]

\* one iteration of the for loop of sectionDataMapper
ScanAnchor ==
    /\ pc = "scan"
    /\ si <= Len(doc)
    /\ ai <= Len(doc[si])
    /\ LET anchor == doc[si][ai]
           trackingObj == getTrackingObj(anchor.mnemonic)
           start == IsFirstSighting(trackingObj)
           started == IF start
                      THEN [trackingObj EXCEPT !.operationPromise = Len(calls) + 1]
                      ELSE trackingObj
       IN  /\ tracking' = TrackingSet(anchor.mnemonic,
                                      [started EXCEPT !.seenCounter = @ + 1])
           /\ calls' = IF start THEN Append(calls, NewCall(anchor)) ELSE calls
           /\ fetches' = IF start THEN fetches \o ResolverRequests(anchor) ELSE fetches
    /\ ai' = ai + 1
    /\ UNCHANGED <<doc, pc, si, output, probe, settleOrder, articleVars>>
    /\ UNCHANGED restVars

\* sectionDataMapper returns Promise.all(mnemonicDataFetchingPromises); map goes on
SectionDone ==
    /\ pc = "scan"
    /\ si <= Len(doc)
    /\ ai > Len(doc[si])
    /\ si' = si + 1
    /\ ai' = 1
    /\ UNCHANGED <<doc, pc, tracking, calls, fetches, output, probe, settleOrder, articleVars>>
    /\ UNCHANGED restVars

\* await Promise.all(dataInSectionsToProcess.map(sectionDataMapper))
AwaitAll ==
    /\ pc = "scan"
    /\ si > Len(doc)
    /\ pc' = "await"
    /\ UNCHANGED <<doc, si, ai, tracking, calls, fetches, output, probe, settleOrder, articleVars>>
    /\ UNCHANGED restVars

\* what the resolver's promise settles to, tabulated for the anchors and the
\* answers of whole-document runs
ResolverOutcome ==
    [a \in AnchorSamplesAnyHref, r \in NetResponses \cup {NoResponse} |->
        fetchAndParseAnchorReferenceOrThrow(a, r)]

resolverOutcome(anchor, response) ==
    IF <<anchor, response>> \in DOMAIN ResolverOutcome
    THEN ResolverOutcome[anchor, response]
    ELSE fetchAndParseAnchorReferenceOrThrow(anchor, response)

\* the record of call i once the network has answered its request
SettledCall(call, response) ==
    [call EXCEPT !.settled = TRUE,
                 !.response = response,
                 !.outcome = resolverOutcome(call.anchor, response)]

\* the answers a call can get: one of the network's, or none if it sent nothing
AnswersFor(call, responses) == IF call.requests = <<>> THEN {NoResponse} ELSE responses

\* the requests a call sends after its fetch settled
FollowUpRequests(call, response) ==
    IF call.requests = <<>> THEN <<>> ELSE fetchContentFollowUp(call.requests[1], response)

\* a fetch settles, and its handler runs, while the for loops are still going
handlersCanRun_DuringScan == pc \in {"scan", "await"}

\* the for loop of sectionDataMapper and the map over the sections hold no
\* await: no continuation runs before await Promise.all(...) yields
handlersCanRun == pc = "await"

\* the fetch of call i settles with one of the answers, the resolver's promise
\* settles, the handler runs
SettleWith(i, responses) ==
    /\ handlersCanRun
    /\ ~calls[i].settled
    /\ \E response \in AnswersFor(calls[i], responses) :
        LET done == SettledCall(calls[i], response)
            m == calls[i].anchor.mnemonic
        IN  /\ calls' = [calls EXCEPT ![i] = done]
            /\ fetches' = fetches \o FollowUpRequests(calls[i], response)
            /\ IF done.outcome.state = "fulfilled"
               THEN /\ tracking' = trackingAfter(m, thenHandler(done.outcome.v))
                    /\ pc' = pc
               ELSE /\ tracking' = tracking
                    /\ pc' = "threw"
    /\ settleOrder' = Append(settleOrder, i)
    /\ UNCHANGED <<doc, si, ai, output, probe, articleVars>>
    /\ UNCHANGED restVars

Settle(i) == SettleWith(i, NetResponses)

\* seenCounter > 2
IsShared_MoreThanTwo(trackingObj) == trackingObj.seenCounter > 2

\* seenCounter >= 1
IsShared_AtLeastOnce(trackingObj) == trackingObj.seenCounter >= 1

\* if (trackingObj.seenCounter > 1)
IsShared(trackingObj) == trackingObj.seenCounter > 1

PointerTo(mnemonic) == "SEE: sharedMnemonicReferences[\"" \o mnemonic \o "\"]"

\* the references mapper: one entry of `references`
referenceEntry(mnemonic) ==
    [mnemonic |-> mnemonic,
     refContents |-> IF IsShared(tracking[mnemonic])
                     THEN PointerTo(mnemonic)
                     ELSE tracking[mnemonic].refContents]

\* the mnemonics the references mapper assigns into sharedMnemonicReferences
SharedKeys ==
    {m \in DOMAIN tracking :
        /\ IsShared(tracking[m])
        /\ \E s \in DOMAIN doc : \E a \in DOMAIN doc[s] : doc[s][a].mnemonic = m}

\* dataInSectionsToProcess.reduce(...)
Aggregated ==
    [entries |-> [s \in DOMAIN doc |-> [a \in DOMAIN doc[s] |->
                     referenceEntry(doc[s][a].mnemonic)]],
     sharedMnemonicReferences |-> [m \in SharedKeys |-> tracking[m].refContents]]

\* the barrier opens as soon as one operationPromise is settled
barrierOpen_Race == calls = <<>> \/ \E i \in DOMAIN calls : calls[i].settled

\* only the Promise.all of the last section is awaited
barrierOpen_LastSectionOnly ==
    \A i \in DOMAIN calls :
        (\A s \in 1..(Len(doc) - 1) : \A a \in DOMAIN doc[s] :
            doc[s][a].mnemonic # calls[i].anchor.mnemonic) => calls[i].settled

\* Promise.all: every operationPromise of every section is settled
barrierOpen == \A i \in DOMAIN calls : calls[i].settled

\* the barrier opens and the result is built
Return ==
    /\ pc = "await"
    /\ barrierOpen
    /\ output' = Aggregated
    /\ pc' = "done"
    /\ UNCHANGED <<doc, si, ai, tracking, calls, fetches, probe, settleOrder, articleVars>>
    /\ UNCHANGED restVars

Next ==
    \/ ScanAnchor
    \/ SectionDone
    \/ AwaitAll
    \/ \E i \in DOMAIN calls : Settle(i)
    \/ Return

Spec == Init /\ [][Next]_vars

\* the same extraction on pages where an anchor may lack its href
InitMissingHref ==
    /\ doc \in GroupsOf(AnchorSamplesAnyHref, MaxSections, MaxHrefAnchors)
    /\ pc = "scan"
    /\ si = 1
    /\ ai = 1
    /\ tracking = <<>>
    /\ calls = <<>>
    /\ fetches = <<>>
    /\ output = NoOutput
    /\ settleOrder = <<>>
    /\ probe = NoProbe
    /\ ArticleIdle
    /\ RestIdle

SpecMissingHref == InitMissingHref /\ [][Next]_vars

\* the mnemonic whose fetch may never settle
HungMnemonic == "A"

\* a step of the extraction other than the settling of HungMnemonic's fetch
Progress ==
    \/ ScanAnchor
    \/ SectionDone
    \/ AwaitAll
    \/ \E i \in DOMAIN calls : calls[i].anchor.mnemonic # HungMnemonic /\ Settle(i)
    \/ Return

MaxBarrierAnchors == 2

InitBarrier ==
    /\ doc \in GroupsOf(AnchorSamples, MaxSections, MaxBarrierAnchors)
    /\ pc = "scan"
    /\ si = 1
    /\ ai = 1
    /\ tracking = <<>>
    /\ calls = <<>>
    /\ fetches = <<>>
    /\ output = NoOutput
    /\ settleOrder = <<>>
    /\ probe = NoProbe
    /\ ArticleIdle
    /\ RestIdle

\* the extraction with its scheduling: the event loop runs every continuation
\* that is ready, and every fetch settles in the end except, possibly, the one
\* of HungMnemonic
SpecBarrier == InitBarrier /\ [][Next]_vars /\ WF_vars(Progress)

----------------------------------------------------------------------------
(* SpecResolver: one fetchAndParseAnchorReferenceOrThrow call *)

InitResolver ==
    /\ calls = <<>>
    /\ fetches = <<>>
    /\ probe = NoProbe
    /\ BibleIdle
    /\ ArticleIdle
    /\ RestIdle

\* fetchAndParseAnchorReferenceOrThrow($anchor) is called: up to its first await
ResolverCall ==
    /\ calls = <<>>
    /\ \E anchor \in AnchorSamplesAnyHref :
        /\ calls' = <<NewCall(anchor)>>
        /\ fetches' = ResolverRequests(anchor)
    /\ UNCHANGED <<probe, bibleVars, articleVars>>
    /\ UNCHANGED restVars

\* the network answers; the payload is validated and parsed; the promise settles
ResolverSettle ==
    /\ calls # <<>>
    /\ ~calls[1].settled
    /\ \E response \in AnswersFor(calls[1], AllResponses) :
        /\ calls' = <<SettledCall(calls[1], response)>>
        /\ fetches' = fetches \o FollowUpRequests(calls[1], response)
        /\ probe' = IF response.isJson
                    THEN [json |-> response.json,
                          acceptable |->
                              isJsonContentAcceptableForReferenceExtraction(response.json),
                          parsed |-> parseAnchorRefDataOrThrow(response.json)]
                    ELSE probe
    /\ UNCHANGED <<bibleVars, articleVars>>
    /\ UNCHANGED restVars

NextResolver ==
    \/ ResolverCall
    \/ ResolverSettle

SpecResolver == InitResolver /\ [][NextResolver]_vars

----------------------------------------------------------------------------
(* SpecArticle: extractContents *)

\* the answers drawn while an article is resolved
ArticleResponses == {RejectedFetch, JsonBody(Payload(Arr(<<ValidOne>>)))}

InitArticle ==
    /\ article \in QuestionsOf(MaxQuestions, MaxArticleRefs)
    /\ apc = "map"
    /\ qi = 1
    /\ footnoteIndex = 1
    /\ fnOf = <<>>
    /\ aRejected = FALSE
    /\ aOutput = <<>>
    /\ calls = <<>>
    /\ fetches = <<>>
    /\ probe = NoProbe
    /\ BibleIdle
    /\ RestIdle

\* the reference anchors of a question's paragraphs, in document order
RECURSIVE FlattenParagraphs(_, _)
FlattenParagraphs(paragraphs, p) ==
    IF p > Len(paragraphs)
    THEN <<>>
    ELSE [a \in DOMAIN paragraphs[p] |-> [p |-> p, anchor |-> paragraphs[p][a]]]
             \o FlattenParagraphs(paragraphs, p + 1)

\* the anchor callback with a resolver call only for a mnemonic not yet asked for
anchorCallbacks_Dedup(q, paragraphs, firstIndex) ==
    LET flat == FlattenParagraphs(paragraphs, 1)
        all == [i \in DOMAIN flat |->
                   [q |-> q, p |-> flat[i].p, fnIndex |-> firstIndex + i - 1,
                    call |-> NewCall(flat[i].anchor)]]
        IsNew(r) ==
            /\ \A i \in DOMAIN calls : calls[i].anchor.mnemonic # r.call.anchor.mnemonic
            /\ \A i \in DOMAIN all :
                   all[i].call.anchor.mnemonic = r.call.anchor.mnemonic =>
                       all[i].fnIndex >= r.fnIndex
    IN  SelectSeq(all, IsNew)

\* the anchor callbacks read footnoteIndex without incrementing it
anchorCallbacks_SharedIndex(q, paragraphs, firstIndex) ==
    LET flat == FlattenParagraphs(paragraphs, 1)
    IN  [i \in DOMAIN flat |->
            [q |-> q, p |-> flat[i].p, fnIndex |-> firstIndex,
             call |-> NewCall(flat[i].anchor)]]

\* the anchor callbacks of one question, each run up to its await: the anchor
\* takes the next footnote index and its resolver call is made
anchorCallbacks(q, paragraphs, firstIndex) ==
    LET flat == FlattenParagraphs(paragraphs, 1)
    IN  [i \in DOMAIN flat |->
            [q |-> q, p |-> flat[i].p, fnIndex |-> firstIndex + i - 1,
             call |-> NewCall(flat[i].anchor)]]

RECURSIVE Concat(_)
Concat(seqs) == IF seqs = <<>> THEN <<>> ELSE Head(seqs) \o Concat(Tail(seqs))

\* the question callback of extractContents, up to its first await
MapQuestion ==
    /\ apc = "map"
    /\ qi <= Len(article)
    /\ IF ~article[qi].hasPid
       THEN /\ aRejected' = TRUE                               \* throw new Error(msg)
            /\ UNCHANGED <<calls, fetches, fnOf, footnoteIndex>>
       ELSE LET started == anchorCallbacks(qi, article[qi].paragraphs, footnoteIndex)
            IN  /\ calls' = calls \o [i \in DOMAIN started |-> started[i].call]
                /\ fetches' = fetches \o
                       Concat([i \in DOMAIN started |-> started[i].call.requests])
                /\ fnOf' = fnOf \o
                       [i \in DOMAIN started |->
                           [q |-> started[i].q, p |-> started[i].p,
                            fnIndex |-> started[i].fnIndex]]
                /\ footnoteIndex' = footnoteIndex + AnchorCount(article[qi].paragraphs)
                /\ UNCHANGED aRejected
    /\ qi' = qi + 1
    /\ UNCHANGED <<article, apc, aOutput, probe, bibleVars>>
    /\ UNCHANGED restVars

\* return Promise.all(promises), awaited by extractArticleContents
ArticleAwait ==
    /\ apc = "map"
    /\ qi > Len(article)
    /\ apc' = "await"
    /\ UNCHANGED <<article, qi, footnoteIndex, fnOf, aRejected, aOutput,
                   calls, fetches, probe, bibleVars>>
    /\ UNCHANGED restVars

\* the fetch of call i settles and its anchor callback resumes
ArticleSettle(i) ==
    /\ apc = "await"
    /\ ~calls[i].settled
    /\ \E response \in AnswersFor(calls[i], ArticleResponses) :
        LET done == SettledCall(calls[i], response)
        IN  /\ calls' = [calls EXCEPT ![i] = done]
            /\ fetches' = fetches \o FollowUpRequests(calls[i], response)
            /\ aRejected' = (aRejected \/ done.outcome.state = "rejected")
    /\ UNCHANGED <<article, apc, qi, footnoteIndex, fnOf, aOutput, probe, bibleVars>>
    /\ UNCHANGED restVars

\* Promise.all rejects as soon as one of its promises has
ArticleThrow ==
    /\ apc = "await"
    /\ aRejected
    /\ apc' = "threw"
    /\ UNCHANGED <<article, qi, footnoteIndex, fnOf, aRejected, aOutput,
                   calls, fetches, probe, bibleVars>>
    /\ UNCHANGED restVars

\* the text an anchor callback returns beside its fnIndex
articleRefContents(opRes) ==
    IF opErrored(opRes) THEN UNABLE_TO_EXTRACT_REFERENCE ELSE opRes.res.parsedContent

\* the references record of paragraph p of question q
paragraphReferences(q, p) ==
    LET mine == {i \in DOMAIN fnOf : fnOf[i].q = q /\ fnOf[i].p = p}
    IN  [n \in {fnOf[i].fnIndex : i \in mine} |->
            articleRefContents(
                calls[CHOOSE i \in mine : fnOf[i].fnIndex = n].outcome.v)]

\* every paragraph of every question is done: extractContents resolves
ArticleReturn ==
    /\ apc = "await"
    /\ ~aRejected
    /\ \A i \in DOMAIN calls : calls[i].settled
    /\ aOutput' = [q \in DOMAIN article |->
                      [p \in DOMAIN article[q].paragraphs |-> paragraphReferences(q, p)]]
    /\ apc' = "done"
    /\ UNCHANGED <<article, qi, footnoteIndex, fnOf, aRejected, calls, fetches,
                   probe, bibleVars>>
    /\ UNCHANGED restVars

NextArticle ==
    \/ MapQuestion
    \/ ArticleAwait
    \/ \E i \in DOMAIN calls : ArticleSettle(i)
    \/ ArticleThrow
    \/ ArticleReturn

SpecArticle == InitArticle /\ [][NextArticle]_vars

----------------------------------------------------------------------------
(* SpecClassify: buildPublicationRefData on an item of any articleClasses *)

MaxClassPieces == 3

\* what class lists are made of
ClassPieces ==
    { PUB_CODE_WATCHTOWER, <<"P", "u", "B", "-", "W">>, PUB_CODE_BIBLE,
      <<"f", "o", "o", " ">>, <<" ", "b", "a", "r">>, <<"o", "t", "h", "e", "r">>,
      <<" ">>, <<"-">>, <<"x">>, <<"_">> }

RECURSIVE ClassLists(_)
\* the strings made of at most n pieces
ClassLists(n) ==
    IF n = 0
    THEN {<<>>}
    ELSE {<<>>} \cup {piece \o rest : piece \in ClassPieces, rest \in ClassLists(n - 1)}

InitClassify ==
    /\ input \in ClassLists(MaxClassPieces)
    /\ returned = NotCalled
    /\ calls = <<>>
    /\ fetches = <<>>
    /\ probe = NoProbe
    /\ BibleIdle
    /\ ArticleIdle
    /\ LinksIdle
    /\ RouteIdle
    /\ PagesIdle

\* buildPublicationRefData({ content, articleClasses })
Classify ==
    /\ returned = NotCalled
    /\ returned' = Ret(buildPublicationRefData(Item(Str(MarkupOne), Str(input))))
    /\ UNCHANGED <<input, calls, fetches, probe, bibleVars, articleVars, linksVars, routeVars, pageVars>>

NextClassify == Classify

SpecClassify == InitClassify /\ [][NextClassify]_vars

----------------------------------------------------------------------------
(* SpecNwtsty: extractPubNwtstyReferenceAsText on a string of markup *)

MaxNodes == 3

SpanSl == Element("span", {"sl"}, <<TextNode(<<"a">>)>>)            \* <span class="sl">a</span>

SpanB == Element("span", {"b"}, <<TextNode(<<"r", "e", "f">>)>>)    \* <span class="b">ref</span>

BackRefAnchor == Element("a", {"b"}, <<TextNode(<<"r", "e", "f">>)>>)     \* <a class="b">ref</a>

FootnoteAnchor == Element("a", {"fn"}, <<TextNode(<<"*">>)>>)             \* <a class="fn">*</a>

\* <span class="sz">z<a class="fn">*</a></span>
SpanSz == Element("span", {"sz"}, <<TextNode(<<"z">>), FootnoteAnchor>>)

NodeSamples ==
    { SpanSl, SpanB, BackRefAnchor, FootnoteAnchor, SpanSz,
      TextNode(<<"t", "e", "x", "t">>), TextNode(<<"\n">>) }

InitNwtsty ==
    /\ input \in SeqsUpTo(NodeSamples, MaxNodes)
    /\ returned = NotCalled
    /\ calls = <<>>
    /\ fetches = <<>>
    /\ probe = NoProbe
    /\ BibleIdle
    /\ ArticleIdle
    /\ LinksIdle
    /\ RouteIdle
    /\ PagesIdle

\* extractPubNwtstyReferenceAsText(content) with content a string
ExtractNwtsty ==
    /\ returned = NotCalled
    /\ returned' = Ret(extractPubNwtstyReferenceAsText(input))
    /\ UNCHANGED <<input, calls, fetches, probe, bibleVars, articleVars, linksVars, routeVars, pageVars>>

NextNwtsty == ExtractNwtsty

SpecNwtsty == InitNwtsty /\ [][NextNwtsty]_vars

----------------------------------------------------------------------------
(* SpecLinks: extractReferencesFromLinks *)

MaxLinks == 2

AnchorA == [mnemonic |-> "A", href |-> Str(HrefEsA)]

AnchorB == [mnemonic |-> "B", href |-> Str(HrefEnA)]

\* what getHtmlContent(link) can come to: an error, or a page, given by the
\* sections pickRelevantDOMData picks from it
LinkPages ==
    { ErrorResult(JsError("Error", "Failed to fetch")),
      SuccessResult(<< <<AnchorA>> >>),
      SuccessResult(<< <<AnchorA, AnchorA>> >>),
      SuccessResult(<< <<AnchorA>>, <<AnchorB, AnchorA>> >>) }

\* the answers drawn while the pages of the links are resolved
LinkResponses == {RejectedFetch, JsonBody(Payload(Arr(<<ValidOne>>)))}

InitLinks ==
    /\ \E n \in 0..MaxLinks : links = [k \in 1..n |-> [link |-> k, opRes |-> NotCalled]]
    /\ lpc = "fetch"
    /\ li = 1
    /\ linksResult = [results |-> <<>>, errors |-> <<>>]
    /\ calls = <<>>
    /\ fetches = <<>>
    /\ probe = NoProbe
    /\ BibleIdle
    /\ ArticleIdle
    /\ FnIdle
    /\ RouteIdle
    /\ PagesIdle

\* getHtmlContent(link) settles
PageSettle(k) ==
    /\ lpc = "fetch"
    /\ links[k].opRes = NotCalled
    /\ \E opRes \in LinkPages : links' = [links EXCEPT ![k].opRes = opRes]
    /\ UNCHANGED <<lpc, li, linksResult, calls, fetches, probe, bibleVars, articleVars, fnVars, routeVars, pageVars>>

\* await Promise.all(links.map(...)) is over; result = { errors: [], results: [] }
LoopStart ==
    /\ lpc = "fetch"
    /\ \A k \in DOMAIN links : links[k].opRes # NotCalled
    /\ lpc' = "loop"
    /\ UNCHANGED <<links, li, linksResult, calls, fetches, probe, bibleVars, articleVars, fnVars, routeVars, pageVars>>

\* the failed link is logged and left out
registerOpWithErr_Dropped(link, opRes) == linksResult

\* result.errors.push({ link, error })
registerOpWithErr(link, opRes) ==
    [linksResult EXCEPT !.errors = Append(@, [link |-> link, error |-> opRes.err.message])]

\* one map for all the documents
newTrackingMap_Shared == tracking

\* const mnemonicExtractionTracking = new Map()
newTrackingMap == <<>>

\* an iteration of the for loop up to await extractBibleReferences(opRes.res)
LinkBegin ==
    /\ lpc = "loop"
    /\ li <= Len(links)
    /\ pc = "off"
    /\ IF opErrored(links[li].opRes)
       THEN /\ linksResult' = registerOpWithErr(links[li].link, links[li].opRes)
            /\ li' = li + 1
            /\ UNCHANGED <<doc, pc, si, ai, tracking>>
       ELSE /\ doc' = links[li].opRes.res
            /\ pc' = "scan"
            /\ si' = 1
            /\ ai' = 1
            /\ tracking' = newTrackingMap
            /\ UNCHANGED <<linksResult, li>>
    /\ UNCHANGED <<links, lpc, output, settleOrder, calls, fetches, probe, articleVars, fnVars, routeVars, pageVars>>

\* the settling of the fetches of the document being processed
LinkSettle(i) == SettleWith(i, LinkResponses)

\* the reduce of _extractBibleReferences throws: $(`[id*="${sectionKey}"]`) on
\* a data-key that breaks the selector; wrapAsyncOp turns it into an ErrorResult
ReduceThrows ==
    /\ lpc = "loop"
    /\ pc = "await"
    /\ barrierOpen
    /\ Len(doc) > 0
    /\ pc' = "threw"
    /\ UNCHANGED <<links, lpc, li, linksResult, doc, si, ai, tracking, output, settleOrder,
                   calls, fetches, probe, articleVars, fnVars, routeVars, pageVars>>

\* extractBibleReferences has settled: the rest of the iteration
LinkEnd ==
    /\ lpc = "loop"
    /\ pc \in {"done", "threw"}
    /\ linksResult' =
           IF pc = "threw"
           THEN registerOpWithErr(links[li].link,
                                  ErrorResult(JsError("Error", "extraction failed")))
           ELSE [linksResult EXCEPT !.results =
                    Append(@, [link |-> links[li].link,
                               entries |-> output.entries,
                               sharedMnemonicReferences |-> output.sharedMnemonicReferences])]
    /\ li' = li + 1
    /\ pc' = "off"
    /\ UNCHANGED <<links, lpc, doc, si, ai, tracking, output, settleOrder,
                   calls, fetches, probe, articleVars, fnVars, routeVars, pageVars>>

\* return result
LinksReturn ==
    /\ lpc = "loop"
    /\ li > Len(links)
    /\ pc = "off"
    /\ lpc' = "returned"
    /\ UNCHANGED <<links, li, linksResult, calls, fetches, probe, bibleVars, articleVars, fnVars, routeVars, pageVars>>

NextLinks ==
    \/ \E k \in DOMAIN links : PageSettle(k)
    \/ LoopStart
    \/ LinkBegin
    \/ ScanAnchor
    \/ SectionDone
    \/ AwaitAll
    \/ \E i \in DOMAIN calls : LinkSettle(i)
    \/ Return
    \/ ReduceThrows
    \/ LinkEnd
    \/ LinksReturn

SpecLinks == InitLinks /\ [][NextLinks]_vars

----------------------------------------------------------------------------
(* what the claims speak of *)

\* <<section, anchor>> of every anchor of the document
Positions == {p \in (DOMAIN doc) \X (1..MaxDocAnchors) : p[2] <= Len(doc[p[1]])}

MnemonicAt(p) == doc[p[1]][p[2]].mnemonic

DocMnemonics == {MnemonicAt(p) : p \in Positions}

Occurrences(m) == Cardinality({p \in Positions : MnemonicAt(p) = m})

CallsFor(m) == {i \in DOMAIN calls : calls[i].anchor.mnemonic = m}

\* the payload is not of the expected shape: items missing, not an array or
\* empty, or a first item without a non-empty string content or articleClasses
ShapeInvalid(json) ==
    \/ json.t # "object"
    \/ "items" \notin DOMAIN json
    \/ json.items.t # "array"
    \/ Len(json.items.elems) = 0
    \/ json.items.elems[1].t # "object"
    \/ ~IsNonEmptyString(json.items.elems[1].content)
    \/ ~IsNonEmptyString(json.items.elems[1].articleClasses)

\* the fetch failed: rejected, non-2xx, a body that is not JSON, a malformed payload
ResponseFails(response) ==
    \/ response.kind # "response"
    \/ ~response.ok
    \/ ~response.isJson
    \/ ShapeInvalid(response.json)

\* the text the first item of a well-formed payload resolves to
TextOf(response) == buildPublicationRefData(response.json.items.elems[1]).parsedContent

\* the text a settled call stands for in the output
ExpectedText(call) ==
    IF ResponseFails(call.response) THEN UNABLE_TO_EXTRACT_REFERENCE ELSE TextOf(call.response)

TheCallFor(m) == calls[CHOOSE i \in DOMAIN calls : calls[i].anchor.mnemonic = m]

EntryAt(p) == output.entries[p[1]][p[2]]

IsPointerAt(p) == EntryAt(p).refContents = PointerTo(MnemonicAt(p))

\* the text a reader of the output finds for the occurrence at p
TextShownAt(p) ==
    IF IsPointerAt(p)
    THEN IF MnemonicAt(p) \in DOMAIN output.sharedMnemonicReferences
         THEN output.sharedMnemonicReferences[MnemonicAt(p)]
         ELSE "dangling pointer"
    ELSE EntryAt(p).refContents

----------------------------------------------------------------------------
(* SpecWrap: wrapAsyncOp(asyncFunc)(...args) and opErrored on its result *)

MaxArrayLen == 1

ErrorNames == {"Error", "TypeError", "RangeError", "SyntaxError"}

ErrorMessages == {"", "boom", "404"}

PlainValues == {Undefined, Null, NumberVal, Bool(TRUE), Bool(FALSE), Str(<<>>), Str(<<"a">>)}

RECURSIVE ValueLists(_)
ValueLists(n) ==
    IF n = 0
    THEN {<<>>}
    ELSE {<<>>} \cup {<<v>> \o rest : v \in PlainValues, rest \in ValueLists(n - 1)}

\* what asyncFunc can return, or throw: JavaScript can throw any value
WrapValues ==
    PlainValues
        \cup {JsError(n, m) : n \in ErrorNames, m \in ErrorMessages}
        \cup {Arr(l) : l \in ValueLists(MaxArrayLen)}

\* how `await asyncFunc(...args)` completes
WrapCompletions == {Ret(v) : v \in WrapValues} \cup {Thr(v) : v \in WrapValues}

InitWrap ==
    /\ input \in WrapCompletions
    /\ returned = NotCalled
    /\ calls = <<>>
    /\ fetches = <<>>
    /\ probe = NoProbe
    /\ BibleIdle
    /\ ArticleIdle
    /\ LinksIdle
    /\ RouteIdle
    /\ PagesIdle

\* the promise of wrapAsyncOp(asyncFunc)(...args) settles
Wrap ==
    /\ returned = NotCalled
    /\ returned' = wrapAsyncOp(input)
    /\ UNCHANGED <<input, calls, fetches, probe, bibleVars, articleVars, linksVars, routeVars, pageVars>>

NextWrap == Wrap

SpecWrap == InitWrap /\ [][NextWrap]_vars

----------------------------------------------------------------------------
(* SpecUrl: isValidWolBibleBookUrl *)

\* a URL as written: its scheme ("" when the text has none), its host and the
\* segments of its path, each a tuple of characters
Url(scheme, host, segments) == [scheme |-> scheme, host |-> host, segments |-> segments]

\* new URL(url): a TypeError for a text without scheme; otherwise the hostname
\* and the pathname, which is the segments each preceded by "/"
newURL(url) ==
    IF url.scheme = ""
    THEN Thr(JsError("TypeError", "Invalid URL"))
    ELSE Ret([hostname |-> url.host,
              pathname |-> IF url.segments = <<>>
                           THEN <<"/">>
                           ELSE <<"/">> \o join(url.segments, <<"/">>)])

RECURSIVE split(_, _)
\* String.prototype.split(separator), separator being one character
split(chars, separator) ==
    IF separator \notin {chars[i] : i \in DOMAIN chars}
    THEN <<chars>>
    ELSE LET at == CHOOSE i \in DOMAIN chars :
                       chars[i] = separator /\ \A j \in 1..(i - 1) : chars[j] # separator
         IN  <<SubSeq(chars, 1, at - 1)>> \o split(SubSeq(chars, at + 1, Len(chars)), separator)

startsWith(chars, prefix) ==
    Len(chars) >= Len(prefix) /\ SubSeq(chars, 1, Len(prefix)) = prefix

\* isNaN(parseFloat(chars)): parseFloat reads the longest numeric prefix after
\* the leading white space, and is NaN when there is none
parseFloatIsNaN(chars) ==
    LET trimmed == trimStart(chars)
        unsigned == IF trimmed # <<>> /\ Head(trimmed) \in {"+", "-"} THEN Tail(trimmed) ELSE trimmed
    IN  ~ \/ unsigned # <<>> /\ Head(unsigned) \in Digits
          \/ Len(unsigned) >= 2 /\ unsigned[1] = "." /\ unsigned[2] \in Digits
          \/ startsWith(unsigned, <<"I", "n", "f", "i", "n", "i", "t", "y">>)

isValidWolBibleBookUrl(url) ==
    LET parsed == newURL(url)
    IN  IF parsed.k = "throw"
        THEN Ret(Bool(FALSE))
        ELSE LET parsedUrl == parsed.v
                 pathParts == split(parsedUrl.pathname, "/")
             IN  IF parsedUrl.hostname # "wol.jw.org" THEN Ret(Bool(FALSE))
                 ELSE IF Len(pathParts) # 9 THEN Ret(Bool(FALSE))
                 ELSE IF pathParts[1] # <<>> THEN Ret(Bool(FALSE))
                 ELSE IF Len(pathParts[2]) # 2 THEN Ret(Bool(FALSE))
                 ELSE IF ~startsWith(pathParts[6], <<"l", "p">>) THEN Ret(Bool(FALSE))
                 ELSE IF pathParts[7] # <<"n", "w", "t", "s", "t", "y">> THEN Ret(Bool(FALSE))
                 ELSE IF parseFloatIsNaN(pathParts[8]) \/ parseFloatIsNaN(pathParts[9])
                      THEN Ret(Bool(FALSE))
                 ELSE Ret(Bool(TRUE))

SchemeSamples == {"https", ""}

HostSamples == {"wol.jw.org", "www.jw.org"}

LanguageSamples == {<<"e", "n">>, <<"e", "n", "g">>}

WolSamples == {<<"w", "o", "l">>, <<"x">>}

BSamples == {<<"b">>, <<"d">>}

BookSamples == {<<"r", "1">>, <<"r", "6", "6">>, <<"r", "6", "7">>, <<"1">>}

LibrarySamples == {<<"l", "p", "-", "e">>, <<"l", "x">>}

EditionSamples == {<<"n", "w", "t", "s", "t", "y">>, <<"n", "w", "t">>}

ChapterSamples == {<<"1">>, <<"1", "7", "6">>, <<"1", "7", "7">>, <<"0">>, <<"x">>}

VerseSamples == {<<"1">>, <<"1", "7", "7">>, <<"x">>}

\* nothing after the verse, a trailing "/", one more segment
TrailSamples == {<<>>, <<<<>>>>, <<<<"2">>>>}

UrlSamples ==
    {Url(scheme, host, <<language, wol, b, book, library, edition, chapter, verse>> \o trail) :
        scheme \in SchemeSamples, host \in HostSamples, language \in LanguageSamples,
        wol \in WolSamples, b \in BSamples, book \in BookSamples, library \in LibrarySamples,
        edition \in EditionSamples, chapter \in ChapterSamples, verse \in VerseSamples,
        trail \in TrailSamples}

InitUrl ==
    /\ input \in UrlSamples
    /\ returned = NotCalled
    /\ calls = <<>>
    /\ fetches = <<>>
    /\ probe = NoProbe
    /\ BibleIdle
    /\ ArticleIdle
    /\ LinksIdle
    /\ RouteIdle
    /\ PagesIdle

CheckUrl ==
    /\ returned = NotCalled
    /\ returned' = isValidWolBibleBookUrl(input)
    /\ UNCHANGED <<input, calls, fetches, probe, bibleVars, articleVars, linksVars, routeVars, pageVars>>

NextUrl == CheckUrl

SpecUrl == InitUrl /\ [][NextUrl]_vars

----------------------------------------------------------------------------
(* SpecNwtstyRoute: GET / of pubNwtstyRouter *)

MaxQueryLinks == 2

BookUrl(host, book) ==
    Url("https", host,
        <<<<"e", "n">>, <<"w", "o", "l">>, <<"b">>, book, <<"l", "p", "-", "e">>,
          <<"n", "w", "t", "s", "t", "y">>, <<"2">>, <<"1">>>>)

LinkGenesis == Str(BookUrl("wol.jw.org", <<"r", "1">>))

LinkExodus == Str(BookUrl("wol.jw.org", <<"r", "2">>))

LinkElsewhere == Str(BookUrl("www.jw.org", <<"r", "1">>))

\* a query value that is neither a string nor an array: ?links[a]=b
NestedValue == [t |-> "object"]

QueryItems == {LinkGenesis, LinkExodus, LinkElsewhere, NestedValue}

RECURSIVE QueryLists(_)
QueryLists(n) ==
    IF n = 0
    THEN {<<>>}
    ELSE {<<>>} \cup {<<v>> \o rest : v \in QueryItems, rest \in QueryLists(n - 1)}

\* req.query: without the key links, or with it: a string for one ?links=u, an
\* array for a repeated key, an object for a bracketed one
Query(keys, value) == [keys |-> keys, links |-> value]

QuerySamples ==
    {Query({}, Undefined)}
        \cup {Query({"links"}, v) : v \in QueryItems}
        \cup {Query({"links"}, Arr(l)) : l \in QueryLists(MaxQueryLinks)}

\* what buildDefaultLinks() resolves to
DefaultLinksResults ==
    {ErrorResult(JsError("Error", "no meeting page")),
     SuccessResult(<<>>),
     SuccessResult(<<LinkGenesis>>),
     SuccessResult(<<LinkExodus, LinkElsewhere>>)}

\* how `await extractReferencesFromLinks(links)` completes
ExtractionCompletions(linkList) ==
    {Ret([extractedFrom |-> linkList]), Thr(JsError("Error", "extraction failed"))}

NoExtraction == [called |-> FALSE, links |-> <<>>]

\* the response, with what the handler did on the way to it: whether it
\* fetched the default links, the value of `links` it came to, and its call of
\* extractReferencesFromLinks
RouteResponse(status, body, defaultLinksFetched, linkList, extraction) ==
    [status |-> status, body |-> body,
     defaultLinksFetched |-> defaultLinksFetched, links |-> linkList,
     extraction |-> extraction]

InitNwtstyRoute ==
    /\ input \in QuerySamples
    /\ returned = NotCalled
    /\ calls = <<>>
    /\ fetches = <<>>
    /\ probe = NoProbe
    /\ BibleIdle
    /\ ArticleIdle
    /\ LinksIdle
    /\ RouteIdle
    /\ PagesIdle

\* the links the handler takes from the query
linksFromQuery(query) ==
    IF /\ "links" \in query.keys
       /\ query.links.t = "array"
       /\ Len(query.links.elems) > 0
       /\ \A i \in DOMAIN query.links.elems : query.links.elems[i].t = "string"
    THEN query.links.elems
    ELSE <<>>

\* the handler that leaves the invalid links out and goes on with the others
respondFor_SkipsInvalid(linkList, defaultLinksFetched, completion) ==
    LET validLinks == SelectSeq(linkList, LAMBDA link : isValidWolBibleBookUrl(link.s).v.b)
    IN  IF completion.k = "throw"
        THEN RouteResponse(500, [error |-> completion.v.message], defaultLinksFetched,
                           linkList, [called |-> TRUE, links |-> validLinks])
        ELSE RouteResponse(200, completion.v, defaultLinksFetched,
                           linkList, [called |-> TRUE, links |-> validLinks])

\* the handler from the filter of the invalid links on
respondFor(linkList, defaultLinksFetched, completion) ==
    LET invalidLinks == SelectSeq(linkList, LAMBDA link : ~isValidWolBibleBookUrl(link.s).v.b)
    IN  IF Len(invalidLinks) > 0
        THEN RouteResponse(400, [error |-> "Some links are invalid", invalid_links |-> invalidLinks],
                           defaultLinksFetched, linkList, NoExtraction)
        ELSE IF completion.k = "throw"
             THEN RouteResponse(500, [error |-> completion.v.message], defaultLinksFetched,
                                linkList, [called |-> TRUE, links |-> linkList])
             ELSE RouteResponse(200, completion.v, defaultLinksFetched,
                                linkList, [called |-> TRUE, links |-> linkList])

\* pubNwtstyRouter.get('/', ...)
GetPubNwtsty ==
    /\ returned = NotCalled
    /\ LET fromQuery == linksFromQuery(input)
       IN  IF Len(fromQuery) = 0
           THEN \E opRes \in DefaultLinksResults :
                    IF opErrored(opRes)
                    THEN returned' = RouteResponse(500, [error |-> opRes.err.message], TRUE,
                                                   <<>>, NoExtraction)
                    ELSE \E completion \in ExtractionCompletions(opRes.res) :
                             returned' = respondFor(opRes.res, TRUE, completion)
           ELSE \E completion \in ExtractionCompletions(fromQuery) :
                    returned' = respondFor(fromQuery, FALSE, completion)
    /\ UNCHANGED <<input, calls, fetches, probe, bibleVars, articleVars, linksVars, routeVars, pageVars>>

NextNwtstyRoute == GetPubNwtsty

SpecNwtstyRoute == InitNwtstyRoute /\ [][NextNwtstyRoute]_vars

----------------------------------------------------------------------------
(* SpecWeek: the weekly-program extractors that call the Anchor Resolver *)

MaxWeekAnchors == 2

\* the extractors whose resolver calls run one after the other
SequentialExtractors == {"extractTreasuresTalk", "extractSpiritualGems", "extractBibleRead"}

WeekExtractors == SequentialExtractors \cup {"extractFieldMinistry"}

\* an extractor, the anchors of its selection, and the positions of those with
\* class b
WeekInput(extractor, anchors, b) == [extractor |-> extractor, anchors |-> anchors, b |-> b]

WeekInputs ==
    {WeekInput(e, anchors, {}) :
        e \in WeekExtractors \ {"extractSpiritualGems"},
        anchors \in SeqsUpTo(AnchorSamples, MaxWeekAnchors)}
    \cup UNION {{WeekInput("extractSpiritualGems", anchors, b) : b \in SUBSET DOMAIN anchors} :
                    anchors \in SeqsUpTo(AnchorSamples, MaxWeekAnchors)}

\* the anchors an extractor hands to the resolver, in order, or the Error it
\* throws on a selection it does not expect
resolverPlan(in) ==
    IF in.extractor = "extractSpiritualGems"
    THEN IF Cardinality(in.b) # 1
         THEN Thr(JsError("Error", "Unexpected number of elements for scripture anchor."))
         ELSE Ret(<<in.anchors[CHOOSE i \in in.b : TRUE]>> \o Tail(in.anchors))
    ELSE IF in.extractor = "extractBibleRead" /\ Len(in.anchors) # 2
         THEN Thr(JsError("Error", "Unexpected number of elements for bible reading anchor."))
         ELSE Ret(in.anchors)

\* if (x)
Truthy(v) == ~(v.t \in {"null", "undefined"} \/ v = Bool(FALSE) \/ v = Str(<<>>))

\* a failed resolution is replaced by the sentinel
referenceContents_Sentinel(opRes) ==
    IF opErrored(opRes) THEN Ret(UNABLE_TO_EXTRACT_REFERENCE) ELSE Ret(opRes.res.parsedContent)

\* if (opRes.err) { throw opRes.err; } ... opRes.res.parsedContent
referenceContents(opRes) ==
    IF Truthy(opRes.err) THEN Thr(opRes.err) ELSE Ret(opRes.res.parsedContent)

InitWeek ==
    /\ input \in WeekInputs
    /\ returned = NotCalled
    /\ calls = <<>>
    /\ fetches = <<>>
    /\ probe = NoProbe
    /\ BibleIdle
    /\ ArticleIdle
    /\ LinksIdle
    /\ RouteIdle
    /\ PagesIdle

\* the extractor throws before any resolver call
WeekRefuse ==
    /\ returned = NotCalled
    /\ resolverPlan(input).k = "throw"
    /\ returned' = Rejected(resolverPlan(input).v)
    /\ UNCHANGED <<input, calls, fetches, probe, bibleVars, articleVars, linksVars, routeVars, pageVars>>

\* the next fetchAndParseAnchorReferenceOrThrow(anchor) is started: after the
\* previous one has settled, or for extractFieldMinistry in the same run of map
WeekCall ==
    /\ returned = NotCalled
    /\ resolverPlan(input).k = "return"
    /\ Len(calls) < Len(resolverPlan(input).v)
    /\ input.extractor \in SequentialExtractors => \A i \in DOMAIN calls : calls[i].settled
    /\ LET anchor == resolverPlan(input).v[Len(calls) + 1]
       IN  /\ calls' = Append(calls, NewCall(anchor))
           /\ fetches' = fetches \o ResolverRequests(anchor)
    /\ UNCHANGED <<input, returned, probe, bibleVars, articleVars, linksVars, routeVars, pageVars>>

\* a resolver call settles and its await goes on: a throw rejects the extractor
\* (for extractFieldMinistry, its Promise.all, unless already rejected)
WeekSettle(i) ==
    /\ ~calls[i].settled
    /\ input.extractor \notin SequentialExtractors => Len(calls) = Len(resolverPlan(input).v)
    /\ \E response \in AnswersFor(calls[i], NetResponses) :
        LET done == SettledCall(calls[i], response)
            contents == referenceContents(done.outcome.v)
        IN  /\ calls' = [calls EXCEPT ![i] = done]
            /\ fetches' = fetches \o FollowUpRequests(calls[i], response)
            /\ returned' = IF contents.k = "throw" /\ returned = NotCalled
                           THEN Rejected(contents.v)
                           ELSE returned
    /\ UNCHANGED <<input, probe, bibleVars, articleVars, linksVars, routeVars, pageVars>>

\* every reference has its contents: the extractor returns its result
WeekReturn ==
    /\ returned = NotCalled
    /\ resolverPlan(input).k = "return"
    /\ Len(calls) = Len(resolverPlan(input).v)
    /\ \A i \in DOMAIN calls : calls[i].settled
    /\ returned' = Fulfilled([contents |->
                       [i \in DOMAIN calls |-> referenceContents(calls[i].outcome.v).v]])
    /\ UNCHANGED <<input, calls, fetches, probe, bibleVars, articleVars, linksVars, routeVars, pageVars>>

NextWeek ==
    \/ WeekRefuse
    \/ WeekCall
    \/ \E i \in DOMAIN calls : WeekSettle(i)
    \/ WeekReturn

SpecWeek == InitWeek /\ [][NextWeek]_vars

----------------------------------------------------------------------------
(* SpecRoute: a request to a route added by addGetAndPostScrappingRoute *)

MaxBodyHtml == 2

\* pages: the empty text and texts of one to MaxBodyHtml characters
HtmlSamples == {Str(chars) : chars \in SeqsUpTo({"<"}, MaxBodyHtml)}

\* req.body: undefined (nothing parsed), an object without html ({}), or an
\* object whose html is the given value
NoBody == [t |-> "undefined"]

BodyWithout == [t |-> "object", keys |-> {}, html |-> Undefined]

BodyWith(html) == [t |-> "object", keys |-> {"html"}, html |-> html]

BodySamples ==
    {NoBody, BodyWithout}
        \cup {BodyWith(v) : v \in HtmlSamples \cup {Null, NumberVal, Bool(FALSE)}}

Request(method, body) == [method |-> method, body |-> body]

RequestSamples == {Request(method, body) : method \in {"GET", "POST"}, body \in BodySamples}

\* what defaultHtmlGenerator() resolves to: an AsyncOperationResult<string>
GeneratorResults ==
    {ErrorResult(JsError("Error", "Request failed"))} \cup {SuccessResult(h) : h \in HtmlSamples}

\* what scrapperOperation({ html }) does: returns a value or a promise, or throws
Scraped(html) == [t |-> "object", scrapedFrom |-> html]

ThrownSamples == {JsError("Error", "boom"), Str(<<"o", "o", "p", "s">>)}

ScrapperOutcomes(html) ==
    {[promise |-> p, completion |-> Ret(Scraped(html))] : p \in BOOLEAN}
        \cup {[promise |-> p, completion |-> Thr(e)] : p \in BOOLEAN, e \in ThrownSamples}

InitRoute ==
    /\ input \in RequestSamples
    /\ returned = NotCalled
    /\ httpRes = NoResponseYet
    /\ invoked = <<>>
    /\ rpc = "fill"
    /\ calls = <<>>
    /\ fetches = <<>>
    /\ probe = NoProbe
    /\ BibleIdle
    /\ ArticleIdle
    /\ LinksIdle
    /\ PagesIdle

\* req.body?.html
bodyHtml(req) == IF req.body.t = "undefined" THEN Undefined ELSE req.body.html

\* res.status(status).json(body)
sendJson(res, status, body) == [res EXCEPT !.sent = Append(@, [status |-> status, body |-> body])]

\* the middleware goes on to next() although it has answered
afterGeneratorError_FallsThrough == "scrap"

\* return res.status(500).json(...): next() is not called
afterGeneratorError == "end"

fillHtmlContentMiddleware ==
    /\ rpc = "fill"
    /\ LET html == bodyHtml(input)
       IN  IF ~Truthy(html)
           THEN \E opRes \in GeneratorResults :
                    /\ invoked' = Append(invoked, [fn |-> "defaultHtmlGenerator", opRes |-> opRes])
                    /\ IF opErrored(opRes)
                       THEN /\ httpRes' = sendJson(httpRes, 500, [error |-> opRes.err.message])
                            /\ rpc' = afterGeneratorError
                       ELSE /\ httpRes' = [httpRes EXCEPT !.locals.html = opRes.res]
                            /\ rpc' = "scrap"
           ELSE /\ invoked' = invoked
                /\ httpRes' = [httpRes EXCEPT !.locals.html = html]
                /\ rpc' = "scrap"
    /\ UNCHANGED <<input, returned, calls, fetches, probe, bibleVars, articleVars, linksVars,
                   pageVars>>

\* error instanceof Error ? error.message : 'Unknown error'
errorMessage(error) == IF IsErrorInstance(error) THEN error.message ELSE "Unknown error"

scrapperMiddleware ==
    /\ rpc = "scrap"
    /\ \E outcome \in ScrapperOutcomes(httpRes.locals.html) :
           /\ invoked' = Append(invoked, [fn |-> "scrapperOperation",
                                          html |-> httpRes.locals.html,
                                          outcome |-> outcome])
           /\ httpRes' = IF outcome.completion.k = "throw"
                         THEN sendJson(httpRes, 500, [error |-> errorMessage(outcome.completion.v)])
                         ELSE sendJson(httpRes, 200, outcome.completion.v)
    /\ rpc' = "end"
    /\ UNCHANGED <<input, returned, calls, fetches, probe, bibleVars, articleVars, linksVars,
                   pageVars>>

NextRoute ==
    \/ fillHtmlContentMiddleware
    \/ scrapperMiddleware

SpecRoute == InitRoute /\ [][NextRoute]_vars

----------------------------------------------------------------------------
(* SpecSighting: _extractBibleReferences on pages where one mnemonic comes *)
(* on anchors with different targets                                       *)

MaxSightingAnchors == 3

HrefEsB == <<"/", "e", "s", "/", "b">>

\* mnemonic A on two anchors whose targets differ, and mnemonic B
SightingAnchors ==
    { [mnemonic |-> "A", href |-> Str(HrefEsA)],
      [mnemonic |-> "A", href |-> Str(HrefEsB)],
      [mnemonic |-> "B", href |-> Str(HrefEnA)] }

InitSighting ==
    /\ doc \in GroupsOf(SightingAnchors, MaxSections, MaxSightingAnchors)
    /\ pc = "scan"
    /\ si = 1
    /\ ai = 1
    /\ tracking = <<>>
    /\ calls = <<>>
    /\ fetches = <<>>
    /\ output = NoOutput
    /\ settleOrder = <<>>
    /\ probe = NoProbe
    /\ ArticleIdle
    /\ RestIdle

SpecSighting == InitSighting /\ [][Next]_vars

----------------------------------------------------------------------------
(* SpecPages: the page-fetch chain of data-fetching/wol-pages.ts *)

\* what attr('href') gives on the element a page is searched for
HrefSamples == {Undefined, Str(<<>>), Str(<<"/", "e", "s">>), Str(<<"/", "w">>)}

NoElement == [t |-> "none"]

\* a fetched page, as far as the chain looks into it: the element its selector
\* finds, if any
Page(link) == [t |-> "page", link |-> link]

PageSamples ==
    {Page(NoElement)} \cup {Page([t |-> "element", href |-> h]) : h \in HrefSamples}

\* what getHtmlContent(url) resolves to
PageResults ==
    {ErrorResult(JsError("Error", "Request failed")),
     ErrorResult(JsError("Error", "Failed to fetch"))}
        \cup {SuccessResult(p) : p \in PageSamples}

\* the exported functions, by the number of pages each follows a link from
EntryPoints ==
    [fetchLanguageSpecificLandingHtml |-> 1,
     fetchThisWeekMeetingHtml |-> 2,
     fetchThisWeekWatchtowerHtml |-> 3]

EntryLevel == EntryPoints[input]

InitPages ==
    /\ input \in DOMAIN EntryPoints
    /\ returned = NotCalled
    /\ ppc = "start"
    /\ pages = <<>>
    /\ calls = <<>>
    /\ fetches = <<>>
    /\ probe = NoProbe
    /\ BibleIdle
    /\ ArticleIdle
    /\ LinksIdle
    /\ RouteIdle

\* `${v}` in a template literal
TemplateOf(v) == IF v.t = "string" THEN v.s ELSE <<v.t>>

\* `${WOL_URL}${href}`
pageUrl(href) == <<WOL_URL>> \o TemplateOf(href)

getCheerioSelectionOrThrow(page) ==
    IF page.link = NoElement
    THEN Thr(JsError("Error", "No selection found for selector"))
    ELSE Ret(page.link)

FetchNext(url) == [k |-> "fetch", url |-> url]

\* the first function with the guard the other two have
_fetchLanguageSpecificLandingHtml_Guarded(opRes) ==
    IF opErrored(opRes)
    THEN Ret(opRes.err)
    ELSE LET linkElement == getCheerioSelectionOrThrow(opRes.res)
         IN  IF linkElement.k = "throw"
             THEN linkElement
             ELSE IF ~Truthy(linkElement.v.href)
                  THEN Ret(JsError("Error", "No href found for the language link"))
                  ELSE FetchNext(pageUrl(linkElement.v.href))

\* _fetchLanguageSpecificLandingHtml from the landing page's opRes up to its
\* second getHtmlContent call: the href is not looked at
_fetchLanguageSpecificLandingHtml(opRes) ==
    IF opErrored(opRes)
    THEN Ret(opRes.err)
    ELSE LET linkElement == getCheerioSelectionOrThrow(opRes.res)
         IN  IF linkElement.k = "throw"
             THEN linkElement
             ELSE FetchNext(pageUrl(linkElement.v.href))

\* _fetchThisWeekMeetingHtml from the result of fetchLanguageSpecificLandingHtml
\* up to its getHtmlContent call
_fetchThisWeekMeetingHtml(opRes) ==
    IF opErrored(opRes)
    THEN Ret(opRes.err)
    ELSE LET anchorElement == getCheerioSelectionOrThrow(opRes.res)
         IN  IF anchorElement.k = "throw"
             THEN anchorElement
             ELSE IF ~Truthy(anchorElement.v.href)
                  THEN Ret(JsError("Error", "No href found for today's navigation link"))
                  ELSE FetchNext(pageUrl(anchorElement.v.href))

\* _fetchThisWeekWatchtowerHtml from the result of fetchThisWeekMeetingHtml up
\* to its getHtmlContent call
_fetchThisWeekWatchtowerHtml(opRes) ==
    IF opErrored(opRes)
    THEN Ret(opRes.err)
    ELSE LET anchorElement == getCheerioSelectionOrThrow(opRes.res)
         IN  IF anchorElement.k = "throw"
             THEN anchorElement
             ELSE IF ~Truthy(anchorElement.v.href)
                  THEN Ret(JsError("Error", "No href found for watchtower article link"))
                  ELSE FetchNext(pageUrl(anchorElement.v.href))

\* return opRes.err ?? opRes.res
lastStep(opRes) == Ret(Coalesce(opRes.err, opRes.res))

\* the function of a level takes up the result of the level it awaited
callerOf(level, opRes) ==
    IF level = 1 THEN _fetchThisWeekMeetingHtml(opRes) ELSE _fetchThisWeekWatchtowerHtml(opRes)

\* the chain from the result of the wrapped function of a level on: the entry
\* point's result, or the next getHtmlContent call
RECURSIVE unwind(_, _)
unwind(level, opRes) ==
    IF level = EntryLevel
    THEN [k |-> "final", result |-> opRes]
    ELSE LET step == callerOf(level, opRes)
         IN  IF step.k = "fetch"
             THEN [k |-> "fetch", url |-> step.url, level |-> level + 1]
             ELSE unwind(level + 1, wrapAsyncOp(step).v)

Awaiting == <<"language", "meeting", "watchtower">>

\* the chain goes on: a new request, or the entry point's promise resolves
GoOn(next) ==
    IF next.k = "fetch"
    THEN /\ fetches' = Append(fetches, next.url)
         /\ ppc' = Awaiting[next.level]
         /\ returned' = returned
    ELSE /\ fetches' = fetches
         /\ ppc' = "returned"
         /\ returned' = next.result

\* the entry point is called: getHtmlContent(WOL_URL)
ChainStart ==
    /\ ppc = "start"
    /\ fetches' = Append(fetches, <<WOL_URL>>)
    /\ ppc' = "landing"
    /\ UNCHANGED <<input, returned, pages, calls, probe, bibleVars, articleVars, linksVars,
                   routeVars>>

\* the landing page's getHtmlContent resolves
LandingSettles ==
    /\ ppc = "landing"
    /\ \E opRes \in PageResults :
        /\ pages' = Append(pages, opRes)
        /\ LET step == _fetchLanguageSpecificLandingHtml(opRes)
           IN  IF step.k = "fetch"
               THEN GoOn([k |-> "fetch", url |-> step.url, level |-> 1])
               ELSE GoOn(unwind(1, wrapAsyncOp(step).v))
    /\ UNCHANGED <<input, calls, probe, bibleVars, articleVars, linksVars, routeVars>>

\* the getHtmlContent of the function of a level resolves
LinkedPageSettles(level) ==
    /\ ppc = Awaiting[level]
    /\ \E opRes \in PageResults :
        /\ pages' = Append(pages, opRes)
        /\ GoOn(unwind(level, wrapAsyncOp(lastStep(opRes)).v))
    /\ UNCHANGED <<input, calls, probe, bibleVars, articleVars, linksVars, routeVars>>

LanguageSettles == LinkedPageSettles(1)

MeetingSettles == LinkedPageSettles(2)

WatchtowerSettles == LinkedPageSettles(3)

NextPages ==
    \/ ChainStart
    \/ LandingSettles
    \/ LanguageSettles
    \/ MeetingSettles
    \/ WatchtowerSettles

SpecPages == InitPages /\ [][NextPages]_vars

----------------------------------------------------------------------------
(* SpecNormalize: normalizeMnemonics on the anchors of one `.sx` group *)

MaxRun == 3

\* anchor texts: 'G 1,'  '2,'  '3'  'E 1;'  'G 1'  '1 C 1,'
MnemonicTexts ==
    { <<"G", " ", "1", ",">>, <<"2", ",">>, <<"3">>, <<"E", " ", "1", ";">>,
      <<"G", " ", "1">>, <<"1", " ", "C", " ", "1", ",">> }

\* the texts of the sibling anchors of a group, in document order
AnchorRuns == UNION {[1..n -> MnemonicTexts] : n \in 1..MaxRun}

InitNormalize ==
    /\ input \in AnchorRuns
    /\ returned = NotCalled
    /\ calls = <<>>
    /\ fetches = <<>>
    /\ probe = NoProbe
    /\ BibleIdle
    /\ ArticleIdle
    /\ LinksIdle
    /\ RouteIdle
    /\ PagesIdle

\* chars.includes(c)
includes(chars, c) == \E i \in DOMAIN chars : chars[i] = c

\* cleanText(txt).replaceAll(/[,;]/g, '')
removeMnemonicControlChars(txt) ==
    SelectSeq(cleanText(txt), LAMBDA c : c \notin {",", ";"})

\* the texts of the anchors after normalizeAnchorMnemonic ran on the i-th one
normalizeAnchorMnemonic(texts, i) ==
    LET currMnemonic == cleanText(texts[i])
        cleanCurrMnemonic == removeMnemonicControlChars(currMnemonic)
        hasNext == i < Len(texts)
        nextMnemonicPart == removeMnemonicControlChars(cleanText(texts[i + 1]))
        prevMnemonicCode == split(cleanCurrMnemonic, " ")[1]
        withNext == IF includes(currMnemonic, ",") /\ hasNext
                    THEN [texts EXCEPT ![i + 1] = prevMnemonicCode \o <<" ">> \o nextMnemonicPart]
                    ELSE texts
    IN  [withNext EXCEPT ![i] = cleanCurrMnemonic]

\* $(...).each(normalizeAnchorMnemonic), from the i-th anchor on
RECURSIVE eachFrom(_, _)
eachFrom(texts, i) ==
    IF i > Len(texts) THEN texts ELSE eachFrom(normalizeAnchorMnemonic(texts, i), i + 1)

normalizeMnemonics(texts) == eachFrom(texts, 1)

NormalizeCall ==
    /\ returned = NotCalled
    /\ returned' = Ret(normalizeMnemonics(input))
    /\ UNCHANGED <<input, calls, fetches, probe, bibleVars, articleVars, linksVars, routeVars,
                   pageVars>>

NextNormalize == NormalizeCall

SpecNormalize == InitNormalize /\ [][NextNormalize]_vars

----------------------------------------------------------------------------
(* SpecNwtstyEntry: the two entry points of extractPubNwtstyReferenceAsText *)

\* the fragment: <div>...</div> around the nodes
Fragment(nodes) == Element("div", {}, nodes)

NotExtracted == [raw |-> NotCalled, selection |-> NotCalled]

InitNwtstyEntry ==
    /\ input \in {Fragment(nodes) : nodes \in SeqsUpTo(NodeSamples, MaxNodes)}
    /\ returned = NotExtracted
    /\ calls = <<>>
    /\ fetches = <<>>
    /\ probe = NoProbe
    /\ BibleIdle
    /\ ArticleIdle
    /\ LinksIdle
    /\ RouteIdle
    /\ PagesIdle

\* the selection form: context = content, find() reaches the descendants of
\* the selected element and text() is the text of that element alone
extractPubNwtstyReferenceAsTextOfSelection(content) ==
    LET context == <<content>>
        changed == [i \in DOMAIN context |-> nwtstyChanged(context[i], FALSE)]
    IN  CharsToString(replaceSpaceAroundLineBreak(cleanText(text(changed))))

\* extractPubNwtstyReferenceAsText(html) with the fragment's markup
ExtractRaw ==
    /\ returned.raw = NotCalled
    /\ returned' = [returned EXCEPT !.raw = Ret(extractPubNwtstyReferenceAsText(<<input>>))]
    /\ UNCHANGED <<input, calls, fetches, probe, bibleVars, articleVars, linksVars, routeVars,
                   pageVars>>

\* extractPubNwtstyReferenceAsText($(root), $) with the fragment's root selected
ExtractSelection ==
    /\ returned.selection = NotCalled
    /\ returned' = [returned EXCEPT
                       !.selection = Ret(extractPubNwtstyReferenceAsTextOfSelection(input))]
    /\ UNCHANGED <<input, calls, fetches, probe, bibleVars, articleVars, linksVars, routeVars,
                   pageVars>>

NextNwtstyEntry ==
    \/ ExtractRaw
    \/ ExtractSelection

SpecNwtstyEntry == InitNwtstyEntry /\ [][NextNwtstyEntry]_vars

----------------------------------------------------------------------------
(* claims *)

\* C1: once every section has been walked, the number of Anchor Resolver
\* invocations, and of network requests, equals the number of distinct
\* mnemonics of the document: each distinct mnemonic has exactly one call,
\* however many anchors carry it and in whatever order the fetches settle.
C1_OneCallPerDistinctMnemonic ==
    pc \in {"await", "done"} =>
        /\ Len(calls) = Cardinality(DocMnemonics)
        /\ Len(fetches) = Cardinality(DocMnemonics)
        /\ \A m \in DocMnemonics : Cardinality(CallsFor(m)) = 1

C1_Witness ==
    /\ pc = "done"
    /\ Cardinality(Positions) = 4
    /\ Cardinality(DocMnemonics) = 2
    /\ \E m \in DocMnemonics : Occurrences(m) = 3
    /\ Len(calls) = 2
    /\ Len(fetches) = 2

\* C2: in the output, every occurrence of a mnemonic that occurs more than
\* once is the pointer string SEE: sharedMnemonicReferences["<mnemonic>"], and
\* the shared table holds that mnemonic with its resolved text.
C2_RepeatedMnemonicsArePointers ==
    pc = "done" =>
        \A m \in DocMnemonics :
            Occurrences(m) > 1 =>
                /\ \A p \in Positions :
                       MnemonicAt(p) = m =>
                           /\ EntryAt(p).mnemonic = m
                           /\ EntryAt(p).refContents = PointerTo(m)
                /\ m \in DOMAIN output.sharedMnemonicReferences
                /\ output.sharedMnemonicReferences[m] = ExpectedText(TheCallFor(m))

\* sections [[A,B],[B,A]]: 2 fetches, 4 pointers, 2 table entries
C2_Witness ==
    /\ pc = "done"
    /\ Len(doc) = 2
    /\ Len(doc[1]) = 2
    /\ Len(doc[2]) = 2
    /\ <<doc[1][1].mnemonic, doc[1][2].mnemonic>> = <<"A", "B">>
    /\ <<doc[2][1].mnemonic, doc[2][2].mnemonic>> = <<"B", "A">>
    /\ Len(fetches) = 2
    /\ \A p \in Positions : IsPointerAt(p)
    /\ DOMAIN output.sharedMnemonicReferences = {"A", "B"}
    /\ ~ResponseFails(TheCallFor("A").response)
    /\ ~ResponseFails(TheCallFor("B").response)

\* C3: a mnemonic that occurs exactly once has its resolved text inline and no
\* entry in the shared table; for every mnemonic, either all its occurrences
\* are inline and the table lacks it, or all are pointers and the table has it.
C3_SingleMnemonicsAreInline ==
    pc = "done" =>
        \A m \in DocMnemonics :
            /\ Occurrences(m) = 1 =>
                   /\ \A p \in Positions :
                          MnemonicAt(p) = m =>
                              EntryAt(p).refContents = ExpectedText(TheCallFor(m))
                   /\ m \notin DOMAIN output.sharedMnemonicReferences
            /\ \/ /\ m \in DOMAIN output.sharedMnemonicReferences
                  /\ \A p \in Positions : MnemonicAt(p) = m => IsPointerAt(p)
               \/ /\ m \notin DOMAIN output.sharedMnemonicReferences
                  /\ \A p \in Positions : MnemonicAt(p) = m => ~IsPointerAt(p)

C3_Witness ==
    /\ pc = "done"
    /\ \E m \in DocMnemonics :
        /\ Occurrences(m) = 1
        /\ ~ResponseFails(TheCallFor(m).response)
        /\ \E p \in Positions : MnemonicAt(p) = m /\ EntryAt(p).refContents = TextOf(TheCallFor(m).response)
    /\ \E m \in DocMnemonics : Occurrences(m) > 1

HrefMissing(call) == call.anchor.href.t # "string"

\* C6 as stated: a call on an anchor without href sends no request and makes
\* the extraction throw.
C6_MissingHrefThrowsBeforeFetch ==
    \A i \in DOMAIN calls :
        HrefMissing(calls[i]) => calls[i].requests = <<>> /\ pc = "threw"

\* C6, amended: a call on an anchor without href does not throw: the link is
\* taken to be empty, one request goes to the bare site URL, the promise is
\* fulfilled like any other, and a failure of that request becomes the sentinel.
C6_MissingHrefFetchesBaseUrl ==
    /\ pc # "threw"
    /\ \A i \in DOMAIN calls :
           HrefMissing(calls[i]) =>
               /\ calls[i].requests = << <<WOL_URL>> >>
               /\ calls[i].settled =>
                      /\ calls[i].outcome.state = "fulfilled"
                      /\ ResponseFails(calls[i].response) =>
                             /\ opErrored(calls[i].outcome.v)
                             /\ tracking[calls[i].anchor.mnemonic].refContents =
                                    UNABLE_TO_EXTRACT_REFERENCE

C6_Witness ==
    /\ pc = "done"
    /\ \E i \in DOMAIN calls :
        /\ HrefMissing(calls[i])
        /\ calls[i].response = NonJsonBody
        /\ <<WOL_URL>> \in {fetches[k] : k \in DOMAIN fetches}
        /\ \E p \in Positions :
            /\ MnemonicAt(p) = calls[i].anchor.mnemonic
            /\ EntryAt(p).refContents = UNABLE_TO_EXTRACT_REFERENCE

\* C7: the promise of fetchAndParseAnchorReferenceOrThrow is never rejected: a
\* rejected fetch, a non-2xx response, a non-JSON body and a shape-invalid
\* payload each fulfil it with {err: Error, res: null}; a payload of the
\* expected shape, and nothing else, fulfils it with {err: null, res} whose res
\* carries parsedContent.
C7_ResolverNeverRejects ==
    \A i \in DOMAIN calls :
        calls[i].settled =>
            /\ calls[i].outcome.state = "fulfilled"
            /\ ResponseFails(calls[i].response) =>
                   /\ calls[i].outcome.v.err.t = "error"
                   /\ calls[i].outcome.v.res = Null
            /\ ~ResponseFails(calls[i].response) =>
                   /\ calls[i].outcome.v.err = Null
                   /\ calls[i].outcome.v.res.t = "object"
                   /\ calls[i].outcome.v.res.parsedContent = TextOf(calls[i].response)

\* a payload with no item makes the validation itself throw; the promise still
\* fulfils with an ErrorResult
C7_Witness ==
    /\ calls # <<>>
    /\ calls[1].settled
    /\ calls[1].response = JsonBody(Payload(Arr(<<>>)))
    /\ probe.parsed.k = "throw"
    /\ probe.parsed.v.name = "TypeError"
    /\ calls[1].outcome.state = "fulfilled"
    /\ calls[1].outcome.v.err.name = "TypeError"

\* C8: a resolver call sends exactly one network request, and none after it
\* has settled, whether it succeeded or failed.
C8_OneFetchPerCall ==
    /\ Len(fetches) = Len(calls)
    /\ \A i \in DOMAIN calls : Len(calls[i].requests) = 1

C8_Witness ==
    /\ calls # <<>>
    /\ calls[1].settled
    /\ calls[1].response \in {RejectedFetch, Non2xx}
    /\ opErrored(calls[1].outcome.v)
    /\ Len(fetches) = 1

\* C9: for a payload that is not of the expected shape the validation returns
\* false without throwing, and the parse fails with the malformed-payload error.
C9_MalformedPayloadIsRefusedCleanly ==
    (probe # NoProbe /\ probe.json.t = "object" /\ ShapeInvalid(probe.json)) =>
        /\ probe.acceptable.k = "return"
        /\ probe.acceptable.v.t = "boolean"
        /\ ~probe.acceptable.v.b
        /\ probe.parsed.k = "throw"
        /\ probe.parsed.v.message = MALFORMED_PAYLOAD_MESSAGE

ItemCount(json) ==
    IF json.t = "object" /\ "items" \in DOMAIN json /\ json.items.t = "array"
    THEN Len(json.items.elems)
    ELSE 0

\* C10: a payload is accepted only if it holds exactly one item; with two or
\* more items it is refused and its resolution fails.
C10_ExactlyOneItem ==
    probe # NoProbe =>
        /\ (probe.acceptable.k = "return" /\ probe.acceptable.v.t = "boolean"
                /\ probe.acceptable.v.b) => ItemCount(probe.json) = 1
        /\ ItemCount(probe.json) >= 2 =>
               /\ probe.parsed.k = "throw"
               /\ opErrored(calls[1].outcome.v)

\* the reference anchors extractContents gets to: those of the paragraphs of
\* the questions that carry a data-pid
ArticleAnchors ==
    {x \in (DOMAIN article) \X (1..MaxParagraphs) \X (1..MaxArticleRefs) :
        /\ article[x[1]].hasPid
        /\ x[2] <= Len(article[x[1]].paragraphs)
        /\ x[3] <= Len(article[x[1]].paragraphs[x[2]])}

ArticleMnemonicAt(x) == article[x[1]].paragraphs[x[2]][x[3]].mnemonic

ArticleOccurrences(m) == Cardinality({x \in ArticleAnchors : ArticleMnemonicAt(x) = m})

\* C5 as stated: in the article extractor a mnemonic gets at most one Anchor
\* Resolver call, however many reference anchors carry it.
C5_ArticleDeduplicates ==
    \A m \in Mnemonics : Cardinality(CallsFor(m)) <= 1

\* C5, amended: the article extractor does not deduplicate: it calls the Anchor
\* Resolver once for every reference anchor it gets to, so a mnemonic carried
\* by k anchors gets k calls and k network requests.
C5_ArticleCallsPerAnchor ==
    apc \in {"await", "done", "threw"} =>
        /\ Len(calls) = Cardinality(ArticleAnchors)
        /\ Len(fetches) = Cardinality(ArticleAnchors)
        /\ \A m \in Mnemonics : Cardinality(CallsFor(m)) = ArticleOccurrences(m)

\* the same mnemonic in a paragraph of each of two questions: two calls
C5_Witness ==
    /\ apc = "done"
    /\ \E m \in Mnemonics :
        /\ ArticleOccurrences(m) = 2
        /\ Cardinality(CallsFor(m)) = 2
        /\ \E x, y \in ArticleAnchors :
            /\ x[1] # y[1]
            /\ ArticleMnemonicAt(x) = m
            /\ ArticleMnemonicAt(y) = m

\* one character is the other but for its case
SameLetter(a, b) ==
    \/ a = b
    \/ \E i \in DOMAIN LowerLetters :
           {a, b} = {LowerLetters[i], UpperLetters[i]}

\* word stands in s as a whole word: somewhere in s its letters follow one
\* another, in either case, with no letter, digit or underscore right before
\* or right after
HasWholeWord(word, s) ==
    \E start \in 1..Len(s) :
        /\ start + Len(word) - 1 <= Len(s)
        /\ \A j \in 1..Len(word) : SameLetter(s[start + j - 1], word[j])
        /\ start > 1 => s[start - 1] \notin WordChars
        /\ start + Len(word) <= Len(s) => s[start + Len(word)] \notin WordChars

FooPubWBar == <<"f", "o", "o", " ">> \o PUB_CODE_WATCHTOWER \o <<" ", "b", "a", "r">>

\* C11: whatever the articleClasses, classification returns, and the text is
\* that of the Watchtower strategy iff pub-w stands in it as a whole word in
\* either case, else that of the Bible strategy iff pub-nwtsty does, else that
\* of the default strategy; with both markers the Watchtower strategy is used.
C11_ClassificationAndDispatch ==
    returned # NotCalled =>
        /\ returned.k = "return"
        /\ returned.v.isPubW = HasWholeWord(PUB_CODE_WATCHTOWER, input)
        /\ returned.v.isPubNwtsty = HasWholeWord(PUB_CODE_BIBLE, input)
        /\ returned.v.parsedContent =
               IF HasWholeWord(PUB_CODE_WATCHTOWER, input)
               THEN extractPubWReferenceAsText(MarkupOne)
               ELSE IF HasWholeWord(PUB_CODE_BIBLE, input)
                    THEN extractPubNwtstyReferenceAsText(MarkupOne)
                    ELSE extractReferenceAsTextDefaultStrategy(MarkupOne)
        /\ input = FooPubWBar =>
               returned.v.parsedContent = extractPubWReferenceAsText(MarkupOne)
        /\ input = PUB_CODE_BIBLE =>
               returned.v.parsedContent = extractPubNwtstyReferenceAsText(MarkupOne)
        /\ input = <<"o", "t", "h", "e", "r">> =>
               returned.v.parsedContent = extractReferenceAsTextDefaultStrategy(MarkupOne)

\* both markers, the Bible one first and the Watchtower one in capitals
C11_Witness ==
    /\ returned # NotCalled
    /\ input = PUB_CODE_BIBLE \o <<" ">> \o <<"P", "u", "B", "-", "W">>
    /\ returned.v.parsedContent = extractPubWReferenceAsText(MarkupOne)
    /\ Cardinality({extractPubWReferenceAsText(MarkupOne),
                    extractPubNwtstyReferenceAsText(MarkupOne),
                    extractReferenceAsTextDefaultStrategy(MarkupOne)}) = 3

\* the text of the markup once every node marked fn or b is gone and a space
\* follows every node marked sl or sz
TextWithoutNotesAndFused(content) ==
    LET body == Element("body", {}, content)
        cleared == withoutDescendants(body, Selector("*", {"fn", "b"}))
        spaced == withAppended(cleared, SELECTOR_SL_SZ, SpaceSpan, FALSE)
    IN  CharsToString(replaceSpaceAroundLineBreak(cleanText(textContent(spaced))))

\* C12: the Bible strategy returns the text of the markup without its nodes
\* marked fn or b and with a space after every node marked sl or sz; for
\* <span class="sl">a</span><span class="b">ref</span>text that is "a text".
C12_NwtstyDropsNotesAndSpaces ==
    returned # NotCalled =>
        /\ returned.v = TextWithoutNotesAndFused(input)
        /\ input = <<SpanSl, SpanB, TextNode(<<"t", "e", "x", "t">>)>> =>
               returned.v = "a text"

\* the output the document and the answer to each mnemonic's request
\* determine, with no regard to when the answers came
DeterminedOutput ==
    [entries |->
         [s \in DOMAIN doc |->
             [a \in DOMAIN doc[s] |->
                 LET m == doc[s][a].mnemonic
                 IN  [mnemonic |-> m,
                      refContents |-> IF Occurrences(m) > 1
                                      THEN PointerTo(m)
                                      ELSE ExpectedText(TheCallFor(m))]]],
     sharedMnemonicReferences |->
         [m \in {n \in DocMnemonics : Occurrences(n) > 1} |-> ExpectedText(TheCallFor(m))]]

\* C13: the output is a function of the document and of the answer each
\* request got: runs on the same document with the same answers return the
\* same entries, in the same order, and the same shared table, in whatever
\* order the fetches settled.
C13_OutputIsDetermined ==
    pc = "done" => output = DeterminedOutput

\* two mnemonics with different answers, the later request answered first
C13_Witness ==
    /\ pc = "done"
    /\ Len(calls) = 2
    /\ settleOrder = <<2, 1>>
    /\ calls[1].response # calls[2].response
    /\ ~ResponseFails(calls[1].response)
    /\ ~ResponseFails(calls[2].response)
    /\ \E m \in DocMnemonics : Occurrences(m) > 1
    /\ \E m \in DocMnemonics : Occurrences(m) = 1

\* <<section, anchor>> of every anchor of a document
PositionsOf(d) == UNION {{<<sec, a>> : a \in DOMAIN d[sec]} : sec \in DOMAIN d}

MnemonicsOf(d) == {d[p[1]][p[2]].mnemonic : p \in PositionsOf(d)}

OccurrencesIn(d, m) == Cardinality({p \in PositionsOf(d) : d[p[1]][p[2]].mnemonic = m})

\* the links whose page was fetched
LoadedLinks == {k \in DOMAIN links : links[k].opRes # NotCalled /\ ~opErrored(links[k].opRes)}

PageOf(k) == links[k].opRes.res

\* C14: the tracking map belongs to one document: while a document is
\* processed the map holds only its mnemonics, each counted as often as this
\* document has shown it; over all the links a mnemonic is fetched once for
\* every document that has it, and in a document's result its occurrences are
\* pointers iff it occurs more than once in that document.
C14_TrackingIsPerDocument ==
    /\ pc \in {"scan", "await", "done"} =>
           \A m \in DOMAIN tracking :
               /\ tracking[m].seenCounter <= OccurrencesIn(doc, m)
               /\ pc # "scan" => tracking[m].seenCounter = OccurrencesIn(doc, m)
    /\ lpc = "returned" =>
           /\ \A m \in Mnemonics :
                  Cardinality(CallsFor(m)) =
                      Cardinality({k \in LoadedLinks : m \in MnemonicsOf(PageOf(k))})
           /\ \A r \in DOMAIN linksResult.results :
                  LET res == linksResult.results[r]
                      d == PageOf(res.link)
                  IN  \A p \in PositionsOf(d) :
                          LET m == d[p[1]][p[2]].mnemonic
                          IN  (res.entries[p[1]][p[2]].refContents = PointerTo(m))
                                  <=> OccurrencesIn(d, m) > 1

\* two links whose pages both have A, once in the first and twice in the second
C14_Witness ==
    /\ lpc = "returned"
    /\ Len(links) = 2
    /\ LoadedLinks = {1, 2}
    /\ OccurrencesIn(PageOf(1), "A") = 1
    /\ OccurrencesIn(PageOf(2), "A") = 2
    /\ Cardinality(CallsFor("A")) = 2
    /\ Len(linksResult.results) = 2
    /\ linksResult.results[1].entries[1][1].refContents # PointerTo("A")
    /\ linksResult.results[2].entries[1][1].refContents = PointerTo("A")

\* C16: the promise of a wrapped function never rejects and resolves to a
\* result with exactly one of err and res non-null: an ErrorResult when the
\* function returns an Error or throws any value, a SuccessResult otherwise,
\* and opErrored is true exactly for the former.
C16_WrappedResultHasOneSide ==
    returned # NotCalled =>
        /\ returned.state = "fulfilled"
        /\ (returned.v.err # Null) # (returned.v.res # Null)
        /\ IF input.k = "throw" \/ IsErrorInstance(input.v)
           THEN returned.v = ErrorResult(input.v) /\ opErrored(returned.v)
           ELSE returned.v = SuccessResult(input.v) /\ ~opErrored(returned.v)

RECURSIVE NumberOf(_)
\* the number written by a tuple of digits
NumberOf(chars) ==
    IF chars = <<>>
    THEN 0
    ELSE 10 * NumberOf(SubSeq(chars, 1, Len(chars) - 1))
             + (CHOOSE n \in 0..9 : <<"0", "1", "2", "3", "4", "5", "6", "7", "8", "9">>[n + 1]
                                        = chars[Len(chars)])

\* chars writes a number from lo to hi
IsNumberWithin(chars, lo, hi) ==
    /\ chars # <<>>
    /\ \A i \in DOMAIN chars : chars[i] \in Digits
    /\ NumberOf(chars) \in lo..hi

\* the structure the function documents
HasDocumentedStructure(url) ==
    /\ url.scheme # ""
    /\ url.host = "wol.jw.org"
    /\ Len(url.segments) = 8
    /\ Len(url.segments[1]) = 2
    /\ url.segments[2] = <<"w", "o", "l">>
    /\ url.segments[3] = <<"b">>
    /\ startsWith(url.segments[4], <<"r">>)
    /\ IsNumberWithin(Tail(url.segments[4]), 1, 66)
    /\ startsWith(url.segments[5], <<"l", "p", "-">>)
    /\ Len(url.segments[5]) > 3
    /\ url.segments[6] = <<"n", "w", "t", "s", "t", "y">>
    /\ IsNumberWithin(url.segments[7], 1, 176)
    /\ IsNumberWithin(url.segments[8], 1, 176)

\* C17: isValidWolBibleBookUrl returns true exactly for the URLs of the
\* documented structure (host wol.jw.org, path /{language}/wol/b/r{book}/
\* lp-{language}/nwtsty/{chapter}/{verse}, book 1..66, chapter and verse
\* 1..176) and false, without throwing, for every other input.
C17_TrueExactlyForDocumentedUrls ==
    returned # NotCalled => returned = Ret(Bool(HasDocumentedStructure(input)))

\* the links a query provides: the string under links, or the strings of the
\* array under links
ProvidedLinks(query) ==
    IF "links" \notin query.keys
    THEN <<>>
    ELSE IF query.links.t = "string"
         THEN <<query.links>>
         ELSE IF query.links.t = "array"
              THEN SelectSeq(query.links.elems, LAMBDA v : v.t = "string")
              ELSE <<>>

\* C18: in GET /pub-nwtsty the caller's links are the ones processed whenever
\* the query provides at least one link; the default links are fetched only
\* when no link is provided.
C18_CallerLinksWinOverDefaults ==
    returned # NotCalled =>
        /\ returned.defaultLinksFetched <=> ProvidedLinks(input) = <<>>
        /\ ProvidedLinks(input) # <<>> /\ returned.extraction.called
               => returned.extraction.links = ProvidedLinks(input)

\* the fetch started for mnemonic m has settled and its handler has set the text
TextSet(m) ==
    \E i \in DOMAIN calls :
        /\ calls[i].anchor.mnemonic = m
        /\ calls[i].settled
        /\ tracking[m].refContents = thenHandler(calls[i].outcome.v)

FailedCalls == {i \in DOMAIN calls : calls[i].settled /\ opErrored(calls[i].outcome.v)}

\* C20: in the weekly-program extractors a failed reference resolution is
\* never thrown past the caller: the caller puts the sentinel in its place and
\* the extraction completes.
C20_WeeklyExtractorsSubstituteSentinel ==
    /\ returned # NotCalled /\ returned.state = "rejected" =>
           \A i \in FailedCalls : returned.v # calls[i].outcome.v.err
    /\ returned # NotCalled /\ returned.state = "fulfilled" =>
           \A i \in FailedCalls : returned.v.contents[i] = UNABLE_TO_EXTRACT_REFERENCE

\* C20 (amended): the weekly-program extractors do not substitute the
\* sentinel: as soon as a resolver call of theirs has failed, the extractor is
\* rejected with the Error of a failed call, and a result is returned only
\* when every call succeeded, holding the parsed contents and no sentinel.
C20_WeeklyExtractorsRethrow ==
    /\ FailedCalls # {} =>
           /\ returned # NotCalled
           /\ returned.state = "rejected"
           /\ \E i \in FailedCalls : returned.v = calls[i].outcome.v.err
    /\ returned # NotCalled /\ returned.state = "fulfilled" =>
           /\ FailedCalls = {}
           /\ \A i \in DOMAIN calls :
                  /\ calls[i].settled
                  /\ returned.v.contents[i] = calls[i].outcome.v.res.parsedContent
                  /\ returned.v.contents[i] # UNABLE_TO_EXTRACT_REFERENCE

\* the second reference of a selection failed after the first had succeeded,
\* and the extractor is rejected
C20_Witness ==
    /\ Len(calls) = 2
    /\ calls[1].settled
    /\ ~opErrored(calls[1].outcome.v)
    /\ FailedCalls = {2}
    /\ returned = Rejected(calls[2].outcome.v.err)

\* the calls of one of the two operations, in order
InvocationsOf(fn) == SelectSeq(invoked, LAMBDA call : call.fn = fn)

\* the request body carries html: an html property that is not empty
CarriesHtml(req) == Truthy(bodyHtml(req))

----------------------------------------------------------------------------
(* C21 *)

\* every mnemonic of the document has its final count: one per occurrence,
\* over all sections
CountingIsOver ==
    \A m \in DocMnemonics :
        /\ m \in DOMAIN tracking
        /\ tracking[m].seenCounter = Occurrences(m)

\* C21: occurrence counting is over before any fetch completes.  Once a
\* fetch-completion handler has run, and from then on, every mnemonic's
\* seenCounter equals the number of its occurrences over all sections; the
\* counts are a function of the document, so they are the same whatever the
\* order the fetches complete in.
C21_CountingEndsBeforeAnyCompletion ==
    /\ settleOrder # <<>> => CountingIsOver
    /\ pc \in {"await", "done"} => CountingIsOver

\* two fetches completed in the reverse of their start order while a third
\* mnemonic occurrence, in a later section, had been counted
C21_Witness ==
    /\ pc = "await"
    /\ Len(settleOrder) = 2
    /\ settleOrder[1] > settleOrder[2]
    /\ \E m \in DocMnemonics :
        /\ Occurrences(m) > 1
        /\ \E p, q \in Positions : p[1] # q[1] /\ MnemonicAt(p) = m /\ MnemonicAt(q) = m

----------------------------------------------------------------------------
(* C22 *)

\* the section holding the first occurrence of m
FirstSectionOf(m) ==
    CHOOSE s \in DOMAIN doc :
        /\ \E a \in DOMAIN doc[s] : doc[s][a].mnemonic = m
        /\ \A r \in 1..(s - 1) : \A a \in DOMAIN doc[r] : doc[r][a].mnemonic # m

\* C22: aggregation reads a tracking entry only after the entry's fetch has
\* settled.  At the step that builds the result, every distinct mnemonic has
\* its one operation completed and its refContents is the fetched text or the
\* sentinel, and that text is what every occurrence of the mnemonic shows,
\* whatever the section of the occurrence that started the fetch.
C22_AggregationReadsSettledEntries ==
    [][(pc = "await" /\ pc' = "done") =>
          \A p \in Positions :
              LET m == MnemonicAt(p)
              IN  /\ \A i \in CallsFor(m) : calls[i].settled
                  /\ CallsFor(m) # {}
                  /\ tracking[m].refContents = ExpectedText(TheCallFor(m))
                  /\ TextShownAt(p)' = tracking[m].refContents]_vars

\* a result was built in which an occurrence of the second section shows the
\* fetched text of a mnemonic whose fetch was started in the first section,
\* and that fetch was the last to settle
C22_Witness ==
    /\ pc = "done"
    /\ \E p \in Positions :
        /\ p[1] = 2
        /\ FirstSectionOf(MnemonicAt(p)) = 1
        /\ ~ResponseFails(TheCallFor(MnemonicAt(p)).response)
        /\ TextShownAt(p) = TextOf(TheCallFor(MnemonicAt(p)).response)
        /\ Len(settleOrder) = 2
        /\ calls[settleOrder[2]].anchor.mnemonic = MnemonicAt(p)

----------------------------------------------------------------------------
(* C23 *)

\* p comes no later than q: section order, then anchor order
NoLaterThan(p, q) == p[1] < q[1] \/ (p[1] = q[1] /\ p[2] <= q[2])

\* the first sighting of mnemonic m
FirstPositionOf(m) ==
    CHOOSE p \in Positions :
        /\ MnemonicAt(p) = m
        /\ \A q \in Positions : MnemonicAt(q) = m => NoLaterThan(p, q)

AnchorAt(p) == doc[p[1]][p[2]]

\* the URL the resolver fetches for an anchor
FetchUrlOf(anchor) == buildAnchorRefExtractionData(anchor).v.fetchUrl

\* C23: the one fetch of a mnemonic is started at its first sighting, in
\* section order then anchor order, on that first anchor's target.  Every
\* later sighting, also one whose anchor has another href, starts no fetch:
\* the requests sent are one per mnemonic seen, each to the first anchor's
\* URL, and in the result every sighting shows the text resolved by that call.
C23_FetchIsOfTheFirstSighting ==
    /\ Len(fetches) = Cardinality(DOMAIN tracking)
    /\ \A m \in DOMAIN tracking :
        /\ Cardinality(CallsFor(m)) = 1
        /\ TheCallFor(m).anchor = AnchorAt(FirstPositionOf(m))
        /\ \E i \in DOMAIN calls :
            /\ calls[i].anchor.mnemonic = m
            /\ fetches[i] = FetchUrlOf(AnchorAt(FirstPositionOf(m)))
    /\ pc = "done" =>
        \A p \in Positions : TextShownAt(p) = ExpectedText(TheCallFor(MnemonicAt(p)))

\* a result in which a later sighting, on an anchor with another target than
\* the first one's, shows the text fetched for the first one
C23_Witness ==
    /\ pc = "done"
    /\ \E p \in Positions :
        LET first == FirstPositionOf(MnemonicAt(p))
        IN  /\ first # p
            /\ FetchUrlOf(AnchorAt(p)) # FetchUrlOf(AnchorAt(first))
            /\ ~ResponseFails(TheCallFor(MnemonicAt(p)).response)
            /\ TextShownAt(p) = TextOf(TheCallFor(MnemonicAt(p)).response)

----------------------------------------------------------------------------
(* C24 *)

\* the links of the entries of a list of results or errors, in order
LinksOf(entries) == [k \in DOMAIN entries |-> entries[k].link]

Increasing(s) == \A j, k \in DOMAIN s : j < k => s[j] < s[k]

\* the links the for loop is done with
LinksHandled == IF lpc = "returned" THEN DOMAIN links ELSE 1..(li - 1)

\* C24: extractReferencesFromLinks partitions its input.  Every link the loop
\* is done with has exactly one entry, in results or in errors and never in
\* both, so at the return |results| + |errors| = |links|; results and errors
\* keep the input order; a link whose page fetch failed, or whose extraction
\* failed, is in errors, and the result of every other link is the one of its
\* own page; the function has no rejecting path.
C24_LinksArePartitioned ==
    LET inResults == LinksOf(linksResult.results)
        inErrors == LinksOf(linksResult.errors)
        Range(s) == {s[k] : k \in DOMAIN s}
    IN  /\ lpc \in {"fetch", "loop", "returned"}
        /\ Len(inResults) + Len(inErrors) = Cardinality(LinksHandled)
        /\ Range(inResults) \cup Range(inErrors) = LinksHandled
        /\ Range(inResults) \cap Range(inErrors) = {}
        /\ Increasing(inResults)
        /\ Increasing(inErrors)
        /\ \A k \in LinksHandled : opErrored(links[k].opRes) => k \in Range(inErrors)
        /\ \A j \in DOMAIN linksResult.results :
            LET r == linksResult.results[j]
            IN  /\ ~opErrored(links[r.link].opRes)
                /\ Len(r.entries) = Len(links[r.link].opRes.res)
                /\ \A s \in DOMAIN r.entries :
                       Len(r.entries[s]) = Len(links[r.link].opRes.res[s])

\* the call returned with the first link in errors, its extraction having
\* failed after its page was fetched, and the second link in results
C24_Witness ==
    /\ lpc = "returned"
    /\ Len(links) = 2
    /\ ~opErrored(links[1].opRes)
    /\ LinksOf(linksResult.errors) = <<1>>
    /\ LinksOf(linksResult.results) = <<2>>
    /\ Len(linksResult.results[1].entries) > 0

\* the call returned with the first link in results and the second, whose
\* page fetch failed, in errors
C24_WitnessPageFailure ==
    /\ lpc = "returned"
    /\ Len(links) = 2
    /\ opErrored(links[2].opRes)
    /\ LinksOf(linksResult.results) = <<1>>
    /\ LinksOf(linksResult.errors) = <<2>>

----------------------------------------------------------------------------
(* C25 *)

\* x comes before y in the article: question, then paragraph, then anchor
ArticleBefore(x, y) ==
    \/ x[1] < y[1]
    \/ x[1] = y[1] /\ x[2] < y[2]
    \/ x[1] = y[1] /\ x[2] = y[2] /\ x[3] < y[3]

\* the place of reference anchor x among the reference anchors of the article
OrdinalOf(x) == 1 + Cardinality({y \in ArticleAnchors : ArticleBefore(y, x)})

\* the indices of the [^k] markers put into paragraph p of question q
MarkersIn(q, p) == {fnOf[i].fnIndex : i \in {j \in DOMAIN fnOf : fnOf[j].q = q /\ fnOf[j].p = p}}

\* every question has been mapped
ArticleIsMapped == apc \in {"await", "done", "threw"}

\* C25: in extractContents the footnote indices are taken synchronously, in
\* document order, before any reference fetch completes.  Once a fetch has
\* settled every reference anchor has its index; over the article the indices
\* are 1..N without repeat or gap, the k-th anchor of the document having
\* index k whatever the order the fetches settle in; and the references map
\* of each paragraph has exactly the indices of the markers of that paragraph.
C25_FootnoteIndicesFollowTheDocument ==
    /\ \A i \in DOMAIN fnOf : fnOf[i].fnIndex = i
    /\ footnoteIndex = Len(fnOf) + 1
    /\ (\E i \in DOMAIN calls : calls[i].settled) => ArticleIsMapped
    /\ ArticleIsMapped =>
        /\ Len(fnOf) = Cardinality(ArticleAnchors)
        /\ \A x \in ArticleAnchors :
            /\ OrdinalOf(x) \in MarkersIn(x[1], x[2])
            /\ calls[OrdinalOf(x)].anchor = article[x[1]].paragraphs[x[2]][x[3]]
        /\ \A q \in DOMAIN article : \A p \in 1..MaxParagraphs :
            Cardinality(MarkersIn(q, p)) =
                Cardinality({x \in ArticleAnchors : x[1] = q /\ x[2] = p})
    /\ apc = "done" =>
        \A q \in DOMAIN article : \A p \in DOMAIN article[q].paragraphs :
            /\ DOMAIN aOutput[q][p] = MarkersIn(q, p)
            /\ \A x \in ArticleAnchors :
                   (x[1] = q /\ x[2] = p) =>
                       aOutput[q][p][OrdinalOf(x)] =
                           articleRefContents(calls[OrdinalOf(x)].outcome.v)

\* an article of two paragraphs was extracted, the second paragraph's fetch
\* having failed and the first one's not: each references map has its own
\* paragraph's index, with its own text
C25_Witness ==
    /\ apc = "done"
    /\ Len(fnOf) = 2
    /\ fnOf[1].q # fnOf[2].q
    /\ ResponseFails(calls[2].response)
    /\ ~ResponseFails(calls[1].response)
    /\ DOMAIN aOutput[fnOf[1].q][fnOf[1].p] = {1}
    /\ DOMAIN aOutput[fnOf[2].q][fnOf[2].p] = {2}
    /\ aOutput[fnOf[2].q][fnOf[2].p][2] = UNABLE_TO_EXTRACT_REFERENCE
    /\ aOutput[fnOf[1].q][fnOf[1].p][1] = TextOf(calls[1].response)

----------------------------------------------------------------------------
(* C26 *)

\* the k-th page is one the chain follows a link from
IsLinkingPage(k) == k <= EntryLevel

\* the step on the k-th page failed: its fetch failed, or the page lacks the
\* element looked for, or the element has no href (absent or empty)
StepFailed(k) ==
    \/ opErrored(pages[k])
    \/ /\ IsLinkingPage(k)
       /\ \/ pages[k].res.link = NoElement
          \/ ~Truthy(pages[k].res.link.href)

\* C26: the page-fetch chain is strictly sequential and short-circuits.  The
\* fetches are issued one at a time, in the order landing page, language
\* landing page, today's meeting page, Watchtower article page, as far as the
\* entry point goes; if a step fails (fetch error, missing selector, missing
\* href) no later fetch is issued and the result is an ErrorResult; if none
\* fails the result is the last page fetched.
C26_ChainIsSequentialAndShortCircuits ==
    /\ Len(fetches) <= Len(pages) + 1
    /\ Len(fetches) <= EntryLevel + 1
    /\ \A k \in DOMAIN pages :
        StepFailed(k) =>
            /\ Len(fetches) = k
            /\ ppc = "returned"
            /\ opErrored(returned)
    /\ (ppc = "returned" /\ \A k \in DOMAIN pages : ~StepFailed(k)) =>
            /\ Len(pages) = EntryLevel + 1
            /\ returned = SuccessResult(pages[Len(pages)].res)

----------------------------------------------------------------------------
(* C27 *)

\* the anchor at j continues a run: the anchor before it ends on a comma
IsContinuation(j) == j > 1 /\ includes(cleanText(input[j - 1]), ",")

\* the first anchor of the run the anchor at j is in
RunStart(j) ==
    CHOOSE k \in 1..j :
        /\ ~IsContinuation(k)
        /\ \A i \in (k + 1)..j : IsContinuation(i)

\* the book code of an anchor that opens a run: its first word
BookCodeOf(txt) == split(removeMnemonicControlChars(txt), " ")[1]

\* C27: after normalizeMnemonics no anchor's mnemonic holds ',' or ';', and in
\* every run of consecutive anchors joined by commas each continuation anchor,
\* the third and later ones included, carries the book code of the first
\* anchor of the run, followed by its own text.
C27_RunsCarryTheBookCode ==
    returned # NotCalled =>
        \A j \in DOMAIN returned.v :
            /\ ~includes(returned.v[j], ",")
            /\ ~includes(returned.v[j], ";")
            /\ IsContinuation(j) =>
                   returned.v[j] = BookCodeOf(input[RunStart(j)]) \o <<" ">>
                                     \o removeMnemonicControlChars(input[j])

----------------------------------------------------------------------------
(* C28 *)

\* C28: the two entry points of the Bible strategy agree.  For one fragment
\* the call with the fragment's markup returns the text the call with a
\* selection of the fragment's root returns; with the markup every text node
\* counts once, so that <div>text</div> gives "text".
C28_EntryPointsAgree ==
    (returned.raw # NotCalled /\ returned.selection # NotCalled) =>
        /\ returned.raw.v = returned.selection.v
        /\ input = Fragment(<<TextNode(<<"t", "e", "x", "t">>)>>) => returned.raw.v = "text"

----------------------------------------------------------------------------
(* C29 *)

\* the links of a list that fail isValidWolBibleBookUrl, in the list's order
InvalidAmong(linkList) ==
    SelectSeq(linkList, LAMBDA link : ~isValidWolBibleBookUrl(link.s).v.b)

\* C29: in GET /pub-nwtsty, if at least one of the links to process fails
\* isValidWolBibleBookUrl the response is 400 with invalid_links listing
\* exactly the invalid links, and extractReferencesFromLinks is not called, so
\* that no link, valid or not, is fetched.  A 400 is sent in no other case,
\* and the response of a request, once sent, is the only one.
C29_InvalidLinksStopTheRequest ==
    /\ [](returned # NotCalled =>
            /\ InvalidAmong(returned.links) # <<>> =>
                   /\ returned.status = 400
                   /\ returned.body.invalid_links = InvalidAmong(returned.links)
                   /\ ~returned.extraction.called
            /\ returned.status = 400 => InvalidAmong(returned.links) # <<>>
            /\ returned.extraction.called => returned.extraction.links = returned.links)
    /\ [][returned # NotCalled => returned' = returned]_vars

\* a request with a valid and an invalid link was answered 400, naming the
\* invalid one only, without extraction
C29_Witness ==
    /\ returned # NotCalled
    /\ returned.links = <<LinkGenesis, LinkElsewhere>>
    /\ ~returned.defaultLinksFetched
    /\ returned.status = 400
    /\ returned.body.invalid_links = <<LinkElsewhere>>
    /\ ~returned.extraction.called

====
